---- MODULE Spec2Model ----
(***************************************************************************)
(* A model of the zentalk-api gateway: the channel engine (membership,     *)
(* roles, invites, subscriber count), the session registry, the direct     *)
(* message routing fabric and the realtime hub.                            *)
(*                                                                         *)
(* Every HTTP handler runs on its own goroutine and talks to SQLite one    *)
(* statement at a time, with no transaction around its statements.  A      *)
(* channel handler is therefore one action that performs ONE statement of  *)
(* the handler per step for the task (goroutine) running it; the task's    *)
(* pc says which statement is next.                                        *)
(***************************************************************************)
EXTENDS Integers, Sequences, FiniteSets, TLC

\* ------------------------------------------------------------ universes
\* Wallets that hold an initialized session (GetUserSession succeeds).
Users == {"alice", "bob", "carol"}
\* Goroutines serving channel requests.
Tasks == {"t1", "t2"}
\* Channel names a request may carry; "News" and "news" differ in case only.
Names == {"news", "News"}
\* Wallets that send create requests: the wallets are interchangeable, so one.
Creators == {"alice"}
ChannelTypes == {"public", "private"}

\* ------------------------------------------------------------ bounds
MaxChans == 1
MaxInvites == 1
MaxUsesIn == 1
MaxInitial == 1
MaxChanOps == 4

ChanIds == 1..MaxChans
Codes == 1..MaxInvites
\* max_uses is a Go int taken from the request body without validation.
MaxUsesInputs == (0 - 1)..MaxUsesIn
\* InitialMembers of a create request: any short list of addresses.
InitialLists == UNION {[1..n -> Users] : n \in 0..MaxInitial}

VARIABLES
  channels,   \* table channels: id -> row (exists, name, type, owner, count)
  members,    \* table channel_members: id -> (user -> role or "none")
  invites,    \* table channel_invites: code -> row
  ctask,      \* per goroutine: the channel handler it runs and where it is
  clast,      \* the last channel response sent (what the client observed)
  joins,      \* per invite code: number of Subscribe responses "success"
  cops,       \* number of channel requests accepted so far
  posts,      \* table channel_messages: channel id -> message slot -> row
  sessions,           \* Server.Sessions: wallet -> ClientSession
  usernameToAddress,  \* Server.UsernameToAddress: lowercase username -> wallet
  addressToUsername,  \* Server.AddressToUsername: wallet -> username
  userRows,           \* table users: wallet -> username ("" = no row)
  dhtBundles,         \* wallets whose key bundle is published in the DHT
  contacts,           \* table contacts: owner -> contact -> is_blocked
  history,            \* ClientSession.MessageHistory: wallet -> peer -> messages
  msgdb,              \* table messages, in insertion order
  relay,              \* direct messages handed to the transport, not yet delivered
  wsConn,             \* Server.WsConnections: wallet -> a connection is registered
  wsLog,              \* frames written to each wallet's connection
  clock,              \* time.Now().UnixMilli()
  mlast,              \* the last request or callback served and its outcome
  mops,               \* number of requests and callbacks served so far
  x3dh,               \* each wallet's client: its X3DH identity and prekeys
  epoch,              \* each wallet: the ClientSession objects created so far
  bundleCache,        \* each client's cached key bundles of its peers
  pending,            \* Server.PendingMessages, keyed by the address as written
  dtask,              \* per goroutine running deliverPendingMessages
  dlog,               \* envelopes handed to their recipient, in order
  vlast,              \* the last offline-message operation and its outcome
  vops,               \* number of offline-message operations started so far
  slast,              \* the last SaveMessage call made on its own: its arguments
  ulast,              \* the last check-username request and its answer
  ping,               \* each registered connection: do writes to it still succeed
  stream,             \* sends in progress: sequence numbers, the relay connection
  ltask,              \* per goroutine: the function it runs, seen as lock steps
  sock,               \* WsConnections and OnlineUsers by connection, and each handleWebSocket call
  boot                \* one wallet's Sessions entry, the session objects made, the Initialize calls

chanVars == <<channels, members, invites, ctask, clast, joins, cops, posts>>
keyVars == <<x3dh, epoch, bundleCache>>
vaultVars == <<pending, dtask, dlog, vlast, vops>>
probeVars == <<slast, ulast, ping, stream, ltask, sock, boot>>
\* Everything of the session and messaging state but the frames written.
quietVars == <<sessions, usernameToAddress, addressToUsername, userRows, dhtBundles,
               contacts, history, msgdb, relay, wsConn, clock, mlast, mops,
               x3dh, epoch, bundleCache, pending, dtask, dlog, vlast, vops, slast, ulast, ping, stream, ltask, sock, boot>>
msgVars == <<sessions, usernameToAddress, addressToUsername, userRows, dhtBundles,
             contacts, history, msgdb, relay, wsConn, wsLog, clock, mlast, mops,
             x3dh, epoch, bundleCache, pending, dtask, dlog, vlast, vops, slast, ulast, ping, stream, ltask, sock, boot>>
vars == <<channels, members, invites, ctask, clast, joins, cops, posts,
          sessions, usernameToAddress, addressToUsername, userRows, dhtBundles,
          contacts, history, msgdb, relay, wsConn, wsLog, clock, mlast, mops,
          x3dh, epoch, bundleCache, pending, dtask, dlog, vlast, vops, slast, ulast, ping, stream, ltask, sock, boot>>

\* ------------------------------------------------------------ rows
NoChannel == [exists |-> FALSE, name |-> "", type |-> "", owner |-> "", count |-> 0]
\* The id of a deleted channel is a uuid no later channel gets.
DeletedChannel == [NoChannel EXCEPT !.type = "deleted"]
NoPost == [exists |-> FALSE, edited |-> FALSE, deleted |-> FALSE, pinned |-> FALSE]
NoInvite == [exists |-> FALSE, chan |-> 0, maxUses |-> 0, uses |-> 0, expiry |-> "never"]
IdleTask ==
  [pc |-> "idle", op |-> "", caller |-> "", chan |-> 0, target |-> "",
   code |-> 0, maxUses |-> 0, expiry |-> "", name |-> "", type |-> "",
   initial |-> <<>>, idx |-> 0, seenInvite |-> NoInvite, seenRole |-> "",
   seenType |-> "", seenMembers |-> {}]
NoResult ==
  [op |-> "", chan |-> 0, ok |-> FALSE, seenInvite |-> NoInvite, seenRole |-> "",
   seenType |-> "", owners |-> 0, inTransfer |-> FALSE]

\* An api.WSMessage: its type, the wallet it is about, for a "message" event
\* the id and the content of the message (0 and "" otherwise), and for a
\* channel event the id of the channel (0 otherwise).
WSMessage(type, about, id, content) ==
  [type |-> type, about |-> about, id |-> id, content |-> content, chan |-> 0]

\* LOWER(name) of SQLite, on the names of the model.
Lower(n) == IF n = "News" THEN "news" ELSE n

\* ------------------------------------------------------------ queries
IsChannelNameTaken(name) ==
  \E c \in ChanIds : channels[c].exists /\ Lower(channels[c].name) = Lower(name)

IsMember(c, u) == members[c][u] # "none"

IsOwner(c, u) == members[c][u] = "owner"

\* IsAdminOrOwner answering true for every member row.
IsAdminOrOwnerAnyRole(c, u) == members[c][u] # "none"

IsAdminOrOwner(c, u) == members[c][u] \in {"admin", "owner"}

GetChannelMembers(c) == {u \in Users : members[c][u] # "none"}

\* ValidateChannelInvite: the channel id of a usable invite, or an error.
ValidateChannelInvite(code) ==
  IF code \notin Codes \/ ~invites[code].exists
    THEN [err |-> "invalid invite code", chan |-> 0]
  ELSE IF invites[code].expiry = "past"
    THEN [err |-> "invite has expired", chan |-> 0]
  ELSE IF invites[code].maxUses > 0 /\ invites[code].uses >= invites[code].maxUses
    THEN [err |-> "invite has reached maximum uses", chan |-> 0]
  ELSE [err |-> "", chan |-> invites[code].chan]

\* ------------------------------------------------------------ task steps
OwnerCount(c) == Cardinality({u \in Users : members[c][u] = "owner"})

\* A transfer of channel c has been accepted and has not answered yet.
InTransfer(c) ==
  \E t \in Tasks : ctask[t].op = "transfer" /\ ctask[t].chan = c /\ ctask[t].pc # "idle"

Result(t, ok) ==
  [op |-> ctask[t].op, chan |-> ctask[t].chan, ok |-> ok,
   seenInvite |-> ctask[t].seenInvite, seenRole |-> ctask[t].seenRole,
   seenType |-> ctask[t].seenType, owners |-> 0, inTransfer |-> FALSE]

\* The event each handler broadcasts before it answers success.
ChannelEventType(op) ==
  CASE op = "create" -> "channel_created"
    [] op = "subscribe" -> "channel_member_joined"
    [] op = "unsubscribe" -> "channel_member_left"
    [] op = "remove" -> "channel_member_removed"
    [] op \in {"promote", "demote", "transfer"} -> "channel_member_promoted"
    [] op = "post" -> "channel_message"
    [] op = "edit" -> "channel_message_edited"
    [] op = "delmsg" -> "channel_message_deleted"
    [] op = "pin" -> "channel_message_pinned"
    [] OTHER -> "channel_deleted"

\* The addresses the handler of task t loops over with BroadcastToUser:
\* the owner and req.InitialMembers for a create, the list GetChannelMembers
\* returned before the DELETE for unsubscribe, remove and delete channel, and
\* the list it returns after the write for every other handler.
Recipients(t) ==
  LET k == ctask[t] IN
  CASE k.op = "create" -> {k.caller} \cup {k.initial[i] : i \in 1..Len(k.initial)}
    [] k.op \in {"unsubscribe", "remove", "delchan"} -> k.seenMembers
    [] OTHER -> {u \in Users : members'[k.chan][u] # "none"}

\* BroadcastToUser for each recipient: SendWSMessage writes the frame to a
\* registered connection and only logs an error otherwise.
BroadcastToUsers(t) ==
  [u \in Users |->
     IF u \in Recipients(t) /\ wsConn[u]
       THEN Append(wsLog[u], [WSMessage(ChannelEventType(ctask[t].op), "", 0, "")
                                EXCEPT !.chan = ctask[t].chan])
       ELSE wsLog[u]]

\* The handler answers: the goroutine ends and the client sees the response;
\* a success is preceded by the handler's broadcast.
Reply(t, ok) ==
  /\ ctask' = [ctask EXCEPT ![t] = IdleTask]
  /\ clast' = Result(t, ok)
  /\ wsLog' = IF ok THEN BroadcastToUsers(t) ELSE wsLog

\* The handler goes on to its next statement.
Goto(t, pc) ==
  /\ ctask' = [ctask EXCEPT ![t].pc = pc]
  /\ UNCHANGED <<clast, wsLog>>

\* A request is accepted by an idle goroutine.
Accept(t, task) ==
  /\ ctask[t].pc = "idle"
  /\ cops < MaxChanOps
  /\ cops' = cops + 1
  /\ ctask' = [ctask EXCEPT ![t] = task]
  /\ UNCHANGED <<channels, members, invites, clast, joins, posts>>
  /\ UNCHANGED msgVars

Running(t, op) == ctask[t].pc # "idle" /\ ctask[t].op = op

\* The goroutine of task t performs the next statement of its handler; the
\* channel handlers touch nothing of the session and messaging state.
Step(t, op) == Running(t, op) /\ UNCHANGED quietVars /\ UNCHANGED posts

\* The same for the handlers of channel messages, which write posts.
StepPost(t, op) == Running(t, op) /\ UNCHANGED quietVars

\* ------------------------------------------------------------ handlers
\* The id a new channel row gets (a fresh uuid in the code).
NewChannelId == CHOOSE c \in ChanIds : channels[c] = NoChannel
                                       /\ \A d \in ChanIds : d < c => channels[d] # NoChannel

CreatesInFlight ==
  {t \in Tasks : ctask[t].op = "create" /\ ctask[t].pc \in {"cc_validate", "cc_name", "cc_insert"}}

\* The role column the member INSERT of CreateChannel writes for an initial
\* member: memberQuery is the owner's statement, with 'owner' in its text.
InitialMemberRole == "owner"

\* POST /api/channels: HandleCreateChannel and DB.CreateChannel.
HandleCreateChannel(t) ==
  \/ \E caller \in Creators, name \in Names, type \in ChannelTypes \cup {"group"},
        initial \in InitialLists :
       /\ Cardinality({c \in ChanIds : channels[c] # NoChannel})
            + Cardinality(CreatesInFlight) < MaxChans
       /\ Accept(t, [IdleTask EXCEPT !.pc = "cc_validate", !.op = "create",
                       !.caller = caller, !.name = name, !.type = type,
                       !.initial = initial])
  \/ /\ Step(t, "create")
     /\ UNCHANGED <<invites, joins, cops>>
     /\ LET k == ctask[t] IN
        CASE k.pc = "cc_validate" ->
               /\ UNCHANGED <<channels, members>>
               /\ IF k.type \notin ChannelTypes THEN Reply(t, FALSE) ELSE Goto(t, "cc_name")
          [] k.pc = "cc_name" ->
               /\ UNCHANGED <<channels, members>>
               /\ IF IsChannelNameTaken(k.name) THEN Reply(t, FALSE) ELSE Goto(t, "cc_insert")
          [] k.pc = "cc_insert" ->
               \* INSERT INTO channels ... subscriber_count 1; name is UNIQUE NOCASE
               IF IsChannelNameTaken(k.name)
                 THEN UNCHANGED <<channels, members>> /\ Reply(t, FALSE)
                 ELSE /\ channels' = [channels EXCEPT ![NewChannelId] =
                            [exists |-> TRUE, name |-> k.name, type |-> k.type,
                             owner |-> k.caller, count |-> 1]]
                      /\ ctask' = [ctask EXCEPT ![t].chan = NewChannelId, ![t].pc = "cc_owner"]
                      /\ UNCHANGED <<members, clast, wsLog>>
          [] k.pc = "cc_owner" ->
               \* INSERT INTO channel_members ... 'owner'
               /\ members' = [members EXCEPT ![k.chan][k.caller] = "owner"]
               /\ UNCHANGED channels
               /\ IF Len(k.initial) > 0
                    THEN /\ ctask' = [ctask EXCEPT ![t].pc = "cc_member", ![t].idx = 1]
                         /\ UNCHANGED <<clast, wsLog>>
                    ELSE Reply(t, TRUE)
          [] k.pc = "cc_member" ->
               \* one turn of the loop over req.InitialMembers
               LET m == k.initial[k.idx] IN
               /\ members' = IF m # k.caller /\ members[k.chan][m] = "none"
                               THEN [members EXCEPT ![k.chan][m] = InitialMemberRole]
                               ELSE members
               /\ UNCHANGED <<channels, clast, wsLog>>
               /\ ctask' = IF k.idx < Len(k.initial)
                             THEN [ctask EXCEPT ![t].idx = k.idx + 1]
                             ELSE [ctask EXCEPT ![t].pc = "cc_count"]
          [] k.pc = "cc_count" ->
               \* UPDATE channels SET subscriber_count = 1 + len(InitialMembers)
               /\ channels' = [channels EXCEPT ![k.chan].count = 1 + Len(k.initial)]
               /\ UNCHANGED members
               /\ Reply(t, TRUE)

\* AddChannelMember: the member INSERT, then the count UPDATE (two statements).
AddChannelMemberInsert(c, u, role) == [members EXCEPT ![c][u] = role]

AddChannelMemberCount(c) ==
  IF channels[c].exists THEN [channels EXCEPT ![c].count = @ + 1] ELSE channels

\* RemoveChannelMember: the DELETE, then the count UPDATE (two statements).
RemoveChannelMemberDelete(c, u) == [members EXCEPT ![c][u] = "none"]

RemoveChannelMemberCount(c) ==
  IF channels[c].exists /\ channels[c].count > 0
    THEN [channels EXCEPT ![c].count = @ - 1] ELSE channels

\* IncrementInviteUses: UPDATE channel_invites SET uses = uses + 1.
IncrementInviteUses(code) ==
  IF code \in Codes /\ invites[code].exists
    THEN [invites EXCEPT ![code].uses = @ + 1] ELSE invites

\* The invite row a request's code names, as it is when the request arrives.
InviteRow(code) == IF code \in Codes THEN invites[code] ELSE NoInvite

\* POST /api/channels/{id}/subscribe
HandleSubscribeToChannel(t) ==
  \/ \E caller \in Users, c \in ChanIds, code \in 0..MaxInvites :
       Accept(t, [IdleTask EXCEPT !.pc = "sub_get", !.op = "subscribe",
                    !.caller = caller, !.chan = c, !.code = code,
                    !.seenInvite = InviteRow(code), !.seenRole = members[c][caller],
                    !.seenType = channels[c].type])
  \/ /\ Step(t, "subscribe")
     /\ UNCHANGED cops
     /\ LET k == ctask[t] IN
        CASE k.pc = "sub_get" ->
               /\ UNCHANGED <<channels, members, invites, joins>>
               /\ IF ~channels[k.chan].exists THEN Reply(t, FALSE)
                  ELSE /\ ctask' = [ctask EXCEPT ![t].pc = "sub_ismember",
                                                 ![t].type = channels[k.chan].type]
                       /\ UNCHANGED <<clast, wsLog>>
          [] k.pc = "sub_ismember" ->
               /\ UNCHANGED <<channels, members, invites, joins>>
               /\ IF IsMember(k.chan, k.caller) THEN Reply(t, FALSE)
                  ELSE IF k.type = "private"
                    THEN IF k.code = 0 THEN Reply(t, FALSE) ELSE Goto(t, "sub_validate")
                    ELSE Goto(t, "sub_add")
          [] k.pc = "sub_validate" ->
               /\ UNCHANGED <<channels, members, invites, joins>>
               /\ LET v == ValidateChannelInvite(k.code) IN
                  IF v.err # "" \/ v.chan # k.chan THEN Reply(t, FALSE)
                  ELSE Goto(t, "sub_incr")
          [] k.pc = "sub_incr" ->
               /\ invites' = IncrementInviteUses(k.code)
               /\ UNCHANGED <<channels, members, joins>>
               /\ Goto(t, "sub_add")
          [] k.pc = "sub_add" ->
               \* the INSERT fails on PRIMARY KEY (channel_id, user_address)
               /\ UNCHANGED <<channels, invites, joins>>
               /\ IF IsMember(k.chan, k.caller)
                    THEN UNCHANGED members /\ Reply(t, FALSE)
                    ELSE /\ members' = AddChannelMemberInsert(k.chan, k.caller, "subscriber")
                         /\ Goto(t, "sub_count")
          [] k.pc = "sub_count" ->
               /\ channels' = AddChannelMemberCount(k.chan)
               /\ joins' = IF k.type = "private" /\ k.code \in Codes
                             THEN [joins EXCEPT ![k.code] = @ + 1] ELSE joins
               /\ UNCHANGED <<members, invites>>
               /\ Reply(t, TRUE)

\* "Get members before ...": the list the handler will notify.
ReadMembers(t, pc) ==
  /\ ctask' = [ctask EXCEPT ![t].pc = pc,
                            ![t].seenMembers = GetChannelMembers(ctask[t].chan)]
  /\ UNCHANGED <<clast, wsLog>>

\* GetChannelMembers, then the DELETE of RemoveChannelMember and, when a row
\* went, the count UPDATE.
RemoveSteps(t, k, who, pcMembers, pcDel, pcCount) ==
  CASE k.pc = pcMembers ->
         /\ UNCHANGED <<channels, members, invites, joins>>
         /\ ReadMembers(t, pcDel)
    [] k.pc = pcDel ->
         /\ UNCHANGED <<channels, invites, joins>>
         /\ IF ~IsMember(k.chan, who)
              THEN UNCHANGED members /\ Reply(t, FALSE)
              ELSE members' = RemoveChannelMemberDelete(k.chan, who) /\ Goto(t, pcCount)
    [] k.pc = pcCount ->
         /\ channels' = RemoveChannelMemberCount(k.chan)
         /\ UNCHANGED <<members, invites, joins>>
         /\ Reply(t, TRUE)

\* POST /api/channels/{id}/unsubscribe
HandleUnsubscribeFromChannel(t) ==
  \/ \E caller \in Users, c \in ChanIds :
       Accept(t, [IdleTask EXCEPT !.pc = "un_isowner", !.op = "unsubscribe",
                    !.caller = caller, !.chan = c])
  \/ /\ Step(t, "unsubscribe")
     /\ UNCHANGED cops
     /\ LET k == ctask[t] IN
        IF k.pc = "un_isowner"
          THEN /\ UNCHANGED <<channels, members, invites, joins>>
               /\ IF IsOwner(k.chan, k.caller) THEN Reply(t, FALSE)
                  ELSE Goto(t, "un_members")
          ELSE RemoveSteps(t, k, k.caller, "un_members", "un_del", "un_count")

\* DELETE /api/channels/{id}/members/{userAddress}
HandleRemoveChannelMember(t) ==
  \/ \E caller \in Users, c \in ChanIds, target \in Users :
       Accept(t, [IdleTask EXCEPT !.pc = "rm_perm", !.op = "remove",
                    !.caller = caller, !.chan = c, !.target = target])
  \/ /\ Step(t, "remove")
     /\ UNCHANGED cops
     /\ LET k == ctask[t] IN
        IF k.pc = "rm_perm"
          THEN /\ UNCHANGED <<channels, members, invites, joins>>
               /\ IF ~IsAdminOrOwner(k.chan, k.caller) THEN Reply(t, FALSE)
                  ELSE Goto(t, "rm_isowner")
        ELSE IF k.pc = "rm_isowner"
          THEN /\ UNCHANGED <<channels, members, invites, joins>>
               /\ IF IsOwner(k.chan, k.target) THEN Reply(t, FALSE)
                  ELSE Goto(t, "rm_members")
          ELSE RemoveSteps(t, k, k.target, "rm_members", "rm_del", "rm_count")

\* UpdateChannelMemberRole: UPDATE ... SET role; an error when no row matched.
UpdateChannelMemberRole(c, u, newRole) ==
  IF IsMember(c, u) THEN [members EXCEPT ![c][u] = newRole] ELSE members

\* POST /api/channels/{id}/promote
HandlePromoteToAdmin(t) ==
  \/ \E caller \in Users, c \in ChanIds, target \in Users :
       Accept(t, [IdleTask EXCEPT !.pc = "pr_perm", !.op = "promote",
                    !.caller = caller, !.chan = c, !.target = target])
  \/ /\ Step(t, "promote")
     /\ UNCHANGED <<cops, channels, invites, joins>>
     /\ LET k == ctask[t] IN
        IF k.pc = "pr_perm"
          THEN /\ UNCHANGED members
               /\ IF ~IsAdminOrOwner(k.chan, k.caller) THEN Reply(t, FALSE)
                  ELSE Goto(t, "pr_update")
          ELSE /\ members' = UpdateChannelMemberRole(k.chan, k.target, "admin")
               /\ Reply(t, IsMember(k.chan, k.target))

\* POST /api/channels/{id}/demote
HandleDemoteAdmin(t) ==
  \/ \E caller \in Users, c \in ChanIds, target \in Users :
       Accept(t, [IdleTask EXCEPT !.pc = "de_perm", !.op = "demote",
                    !.caller = caller, !.chan = c, !.target = target])
  \/ /\ Step(t, "demote")
     /\ UNCHANGED <<cops, channels, invites, joins>>
     /\ LET k == ctask[t] IN
        IF k.pc = "de_perm"
          THEN /\ UNCHANGED members
               /\ IF ~IsAdminOrOwner(k.chan, k.caller) THEN Reply(t, FALSE)
                  ELSE Goto(t, "de_isowner")
        ELSE IF k.pc = "de_isowner"
          THEN /\ UNCHANGED members
               /\ IF IsOwner(k.chan, k.target) THEN Reply(t, FALSE) ELSE Goto(t, "de_update")
          ELSE /\ members' = UpdateChannelMemberRole(k.chan, k.target, "subscriber")
               /\ Reply(t, IsMember(k.chan, k.target))

\* POST /api/channels/{id}/transfer
HandleTransferOwnership(t) ==
  \/ \E caller \in Users, c \in ChanIds, target \in Users :
       Accept(t, [IdleTask EXCEPT !.pc = "tr_isowner", !.op = "transfer",
                    !.caller = caller, !.chan = c, !.target = target])
  \/ /\ Step(t, "transfer")
     /\ UNCHANGED <<cops, channels, invites, joins>>
     /\ LET k == ctask[t] IN
        CASE k.pc = "tr_isowner" ->
               /\ UNCHANGED members
               /\ IF ~IsOwner(k.chan, k.caller) THEN Reply(t, FALSE)
                  ELSE Goto(t, "tr_ismember")
          [] k.pc = "tr_ismember" ->
               /\ UNCHANGED members
               /\ IF ~IsMember(k.chan, k.target) THEN Reply(t, FALSE)
                  ELSE Goto(t, "tr_demote")
          [] k.pc = "tr_demote" ->
               \* demote the current owner to admin
               /\ members' = UpdateChannelMemberRole(k.chan, k.caller, "admin")
               /\ IF ~IsMember(k.chan, k.caller) THEN Reply(t, FALSE)
                  ELSE Goto(t, "tr_promote")
          [] k.pc = "tr_promote" ->
               \* promote the new owner; on an error go to the rollback
               /\ members' = UpdateChannelMemberRole(k.chan, k.target, "owner")
               /\ IF ~IsMember(k.chan, k.target) THEN Goto(t, "tr_rollback")
                  ELSE Goto(t, "tr_channel")
          [] k.pc = "tr_rollback" ->
               /\ members' = UpdateChannelMemberRole(k.chan, k.caller, "owner")
               /\ Reply(t, FALSE)
          [] k.pc = "tr_channel" ->
               \* UpdateChannel with an empty request: "no fields to update"
               /\ UNCHANGED members
               /\ Reply(t, TRUE)

\* The code a new invite row gets (16 random bytes in the code).
NewInviteCode == CHOOSE i \in Codes : ~invites[i].exists
                                      /\ \A j \in Codes : j < i => invites[j].exists

InvitesInFlight == {t \in Tasks : ctask[t].op = "invite" /\ ctask[t].pc # "idle"}

\* expires_at of a request: absent, or an instant that InviteExpires lets
\* pass ("past" in the row from then on).
ExpiryInputs == {"never", "future"}

\* POST /api/channels/{id}/invites: HandleCreateChannelInvite and
\* DB.CreateChannelInvite.  max_uses goes to the row as the body gave it.
HandleCreateChannelInvite(t) ==
  \/ \E caller \in Users, c \in ChanIds, mx \in MaxUsesInputs, ex \in ExpiryInputs :
       /\ Cardinality({i \in Codes : invites[i].exists})
            + Cardinality(InvitesInFlight) < MaxInvites
       /\ Accept(t, [IdleTask EXCEPT !.pc = "ci_perm", !.op = "invite",
                       !.caller = caller, !.chan = c, !.maxUses = mx, !.expiry = ex])
  \/ /\ Step(t, "invite")
     /\ UNCHANGED <<cops, channels, members, joins>>
     /\ LET k == ctask[t] IN
        IF k.pc = "ci_perm"
          THEN /\ UNCHANGED invites
               /\ IF ~IsAdminOrOwner(k.chan, k.caller) THEN Reply(t, FALSE)
                  ELSE Goto(t, "ci_insert")
          ELSE /\ invites' = [invites EXCEPT ![NewInviteCode] =
                     [exists |-> TRUE, chan |-> k.chan, maxUses |-> k.maxUses,
                      uses |-> 0, expiry |-> k.expiry]]
               /\ ctask' = [ctask EXCEPT ![t] = IdleTask]
               /\ clast' = Result(t, TRUE)
               /\ UNCHANGED wsLog

\* RevokeChannelInvite: DELETE FROM channel_invites WHERE id = ?.
RevokeChannelInvite(code) == [invites EXCEPT ![code] = NoInvite]

\* DELETE of an invite: HandleRevokeChannelInvite.  The session of the caller
\* is looked up and not used; the row is deleted, "invite not found" when
\* there is none.
HandleRevokeChannelInvite(t) ==
  \/ \E caller \in Users, code \in Codes :
       Accept(t, [IdleTask EXCEPT !.pc = "rv_delete", !.op = "revoke",
                    !.caller = caller, !.code = code])
  \/ /\ Step(t, "revoke")
     /\ UNCHANGED <<cops, channels, members, joins, wsLog>>
     /\ LET k == ctask[t] IN
        /\ invites' = IF invites[k.code].exists THEN RevokeChannelInvite(k.code)
                      ELSE invites
        /\ ctask' = [ctask EXCEPT ![t] = IdleTask]
        /\ clast' = Result(t, invites[k.code].exists)

\* GET /api/channels/{id}/members: the reader sees the roles of one instant.
HandleGetChannelMembers(t) ==
  \/ \E caller \in Users, c \in ChanIds :
       Accept(t, [IdleTask EXCEPT !.pc = "gm_ismember", !.op = "members",
                    !.caller = caller, !.chan = c])
  \/ /\ Step(t, "members")
     /\ UNCHANGED <<cops, channels, members, invites, joins>>
     /\ LET k == ctask[t] IN
        IF k.pc = "gm_ismember"
          THEN IF ~IsMember(k.chan, k.caller) THEN Reply(t, FALSE) ELSE Goto(t, "gm_list")
          ELSE /\ ctask' = [ctask EXCEPT ![t] = IdleTask]
               /\ clast' = [Result(t, TRUE) EXCEPT !.owners = OwnerCount(k.chan),
                                                   !.inTransfer = InTransfer(k.chan)]
               /\ UNCHANGED wsLog

\* Time passes expires_at of an invite (time.Now().After(expiresAt.Time)).
\* A request reads the clock once, so expiry is not placed inside a Subscribe
\* that has not yet validated the code.
InviteExpires(code) ==
  /\ invites[code].exists
  /\ invites[code].expiry = "future"
  /\ \A t \in Tasks : ~(ctask[t].op = "subscribe" /\ ctask[t].code = code
                        /\ ctask[t].pc \in {"sub_get", "sub_ismember", "sub_validate"})
  /\ invites' = [invites EXCEPT ![code].expiry = "past"]
  /\ UNCHANGED <<channels, members, ctask, clast, joins, cops, posts>>
  /\ UNCHANGED msgVars

\* ------------------------------------------------------------ channel messages
MaxPosts == 1
PostIds == 1..MaxPosts

\* The id a new channel message gets (a fresh uuid in the code).
NewPostId(c) == CHOOSE m \in PostIds : ~posts[c][m].exists
                                      /\ \A n \in PostIds : n < m => posts[c][n].exists

PostsInFlight(c) ==
  {t \in Tasks : ctask[t].op = "post" /\ ctask[t].chan = c /\ ctask[t].pc # "idle"}

\* SaveChannelMessage of a new message.
SaveChannelMessage(c) ==
  [posts EXCEPT ![c][NewPostId(c)] = [NoPost EXCEPT !.exists = TRUE]]

\* UPDATE channel_messages ... WHERE id = ? AND channel_id = ?: the row, if
\* there is one, gets the column; "message not found" otherwise.
EditChannelMessage(c, m) ==
  IF posts[c][m].exists THEN [posts EXCEPT ![c][m].edited = TRUE] ELSE posts
DeleteChannelMessage(c, m) ==
  IF posts[c][m].exists THEN [posts EXCEPT ![c][m].deleted = TRUE] ELSE posts
PinChannelMessage(c, m) ==
  IF posts[c][m].exists THEN [posts EXCEPT ![c][m].pinned = TRUE] ELSE posts

\* DELETE FROM channels WHERE id = ?.  No PRAGMA foreign_keys is issued, so
\* the rows of channel_members and channel_messages stay.
DeleteChannel(c) ==
  IF channels[c].exists THEN [channels EXCEPT ![c] = DeletedChannel] ELSE channels

\* POST /api/channels/{id}/messages
HandleSendChannelMessage(t) ==
  \/ \E caller \in Users, c \in ChanIds :
       /\ Cardinality({m \in PostIds : posts[c][m].exists})
            + Cardinality(PostsInFlight(c)) < MaxPosts
       /\ Accept(t, [IdleTask EXCEPT !.pc = "sm_perm", !.op = "post",
                       !.caller = caller, !.chan = c,
                       !.seenRole = members[c][caller]])
  \/ /\ StepPost(t, "post")
     /\ UNCHANGED <<cops, channels, members, invites, joins>>
     /\ LET k == ctask[t] IN
        IF k.pc = "sm_perm"
          THEN /\ UNCHANGED posts
               /\ IF ~IsAdminOrOwner(k.chan, k.caller) THEN Reply(t, FALSE)
                  ELSE Goto(t, "sm_save")
          ELSE /\ posts' = SaveChannelMessage(k.chan)
               /\ Reply(t, TRUE)

\* The handlers that change one message: the permission check, then the
\* UPDATE.  `perm` and `update` name the two statements of the handler,
\* `after` is the table the UPDATE leaves.
ChangeMessage(t, op, perm, update, after) ==
  \/ \E caller \in Users, c \in ChanIds, m \in PostIds :
       Accept(t, [IdleTask EXCEPT !.pc = perm, !.op = op,
                    !.caller = caller, !.chan = c, !.idx = m,
                    !.seenRole = members[c][caller]])
  \/ /\ StepPost(t, op)
     /\ UNCHANGED <<cops, channels, members, invites, joins>>
     /\ LET k == ctask[t] IN
        IF k.pc = perm
          THEN /\ UNCHANGED posts
               /\ IF ~IsAdminOrOwner(k.chan, k.caller) THEN Reply(t, FALSE)
                  ELSE Goto(t, update)
          ELSE /\ posts' = after
               /\ Reply(t, posts[k.chan][k.idx].exists)

\* PUT /api/channels/{id}/messages/{messageId}
HandleEditChannelMessage(t) ==
  ChangeMessage(t, "edit", "em_perm", "em_update",
                EditChannelMessage(ctask[t].chan, ctask[t].idx))

\* DELETE /api/channels/{id}/messages/{messageId}
HandleDeleteChannelMessage(t) ==
  ChangeMessage(t, "delmsg", "dm_perm", "dm_update",
                DeleteChannelMessage(ctask[t].chan, ctask[t].idx))

\* POST /api/channels/{id}/messages/{messageId}/pin
HandlePinChannelMessage(t) ==
  ChangeMessage(t, "pin", "pm_perm", "pm_update",
                PinChannelMessage(ctask[t].chan, ctask[t].idx))

\* DELETE /api/channels/{id}
HandleDeleteChannel(t) ==
  \/ \E caller \in Users, c \in ChanIds :
       Accept(t, [IdleTask EXCEPT !.pc = "dc_isowner", !.op = "delchan",
                    !.caller = caller, !.chan = c,
                    !.seenRole = members[c][caller]])
  \/ /\ StepPost(t, "delchan")
     /\ UNCHANGED <<cops, members, invites, joins, posts>>
     /\ LET k == ctask[t] IN
        IF k.pc = "dc_isowner"
          THEN /\ UNCHANGED channels
               /\ IF ~IsOwner(k.chan, k.caller) THEN Reply(t, FALSE)
                  ELSE Goto(t, "dc_members")
        ELSE IF k.pc = "dc_members"
          THEN /\ UNCHANGED channels
               /\ ReadMembers(t, "dc_delete")
          ELSE /\ channels' = DeleteChannel(k.chan)
               /\ Reply(t, channels[k.chan].exists)

\* ------------------------------------------------------------ sessions, messages
\* Bounds of the session and messaging part.
MaxMsgOps == 5
MaxClock == 2

\* An address as a request carries it: a wallet written in one of the forms
\* the clients use (40 hex digits; with a 0x prefix and upper-case digits).
AddrForms == {"hex", "0xHEX"}
AddrInputs == [wallet : Users, form : AddrForms]

\* NormalizeAddress: strip 0x / 0X, lower-case.  Every form of a wallet has
\* one normal form, which is the key of the maps and tables.
NormalizeAddress(a) == a.wallet

\* HexToAddress: the 20 bytes the 40 hex digits stand for, whatever the form.
HexToAddress(a) == a.wallet

Usernames == {"ann", "Ann", "bo", "cy"}
\* strings.ToLower / LOWER / COLLATE NOCASE on the usernames of the model.
LowerName(n) == IF n = "Ann" THEN "ann" ELSE n
LowerNames == {LowerName(n) : n \in Usernames}

Contents == {"ping"}

NoSession == [exists |-> FALSE, client |-> FALSE, relay |-> FALSE, dht |-> "none",
              ready |-> FALSE]
NoChats == [p \in Users |-> <<>>]
NoOp == [op |-> "", user |-> "", peer |-> "", ok |-> FALSE, blocked |-> FALSE,
         failedAt |-> ""]

\* The steps of Initialize that can fail, and "ok" when none does.
InitOutcomes == {"ok", "keygen", "dht", "relay", "x3dh"}

\* The session HandleInitialize leaves behind when it stops at `outcome`:
\* CreateSession has stored it in the map before the first step that can fail.
SessionAfter(outcome) ==
  [exists |-> TRUE,
   client |-> outcome \in {"relay", "x3dh", "ok"},
   relay |-> outcome \in {"x3dh", "ok"},
   dht |-> IF outcome \in {"relay", "x3dh", "ok"} THEN "running" ELSE "none",
   ready |-> outcome = "ok"]

\* The string a caller passes for an address: the normal form is the wallet
\* itself, the other form is a different string.
Written(a) ==
  IF a.form = "hex" THEN a.wallet
  ELSE CASE a.wallet = "alice" -> "0xALICE"
         [] a.wallet = "bob" -> "0xBOB"
         [] OTHER -> "0xCAROL"

AddrStrings == {Written(a) : a \in AddrInputs}

\* GetSession: s.Sessions[address], nil when the map has no such key.  The
\* keys of the map are normal forms (CreateSession is called with one).
GetSession(address) ==
  IF address \in DOMAIN sessions THEN sessions[address] ELSE NoSession

\* GetUserSession: the X-Wallet-Address header names a session with a client.
GetUserSession(a) ==
  LET session == GetSession(NormalizeAddress(a)) IN session.exists /\ session.client

\* CleanupSession: the entry leaves the map and its DHT node is stopped.  The
\* username indexes are not touched.
CleanupSession(w) == [sessions EXCEPT ![w] = NoSession]

IsUsernameAvailable(username, excludeWallet) ==
  ~\E w \in Users : /\ w # excludeWallet
                    /\ userRows[w] # ""
                    /\ LowerName(userRows[w]) = LowerName(username)

\* SaveUser: an upsert on wallet_address; username is UNIQUE NOCASE, so the
\* statement fails (and is only logged) when another wallet holds the name.
SaveUser(w, username) ==
  IF IsUsernameAvailable(username, w) THEN [userRows EXCEPT ![w] = username]
  ELSE userRows

\* IsContactBlocked reading the row of the wrong owner.
IsContactBlockedReversed(userAddr, contactAddr) == contacts[contactAddr][userAddr] = "blocked"

\* IsContactBlocked: is_blocked of the row (user_address, contact_address);
\* no row means not blocked.
IsContactBlocked(userAddr, contactAddr) == contacts[userAddr][contactAddr] = "blocked"

IsBlocked(userAddr, contactAddr) == IsContactBlocked(userAddr, contactAddr)

\* SaveMessage: INSERT ... ON CONFLICT(user_address, peer_address, id) DO
\* UPDATE.  id alone is the PRIMARY KEY: a row of another (user, peer) with
\* the same id makes the statement fail, and the table stays as it is.
SaveMessage(userAddr, peerAddr, msg) ==
  LET hit == {i \in 1..Len(msgdb) : msgdb[i].id = msg.id} IN
  IF hit = {}
    THEN Append(msgdb, [id |-> msg.id, user |-> userAddr, peer |-> peerAddr,
                        content |-> msg.content, sender |-> msg.sender])
  ELSE LET i == CHOOSE j \in hit : TRUE IN
       IF msgdb[i].user = userAddr /\ msgdb[i].peer = peerAddr
         THEN [msgdb EXCEPT ![i].content = msg.content]
         ELSE msgdb

\* LoadMessages / LoadAllChats: the rows of (user, peer) in insertion order;
\* status is not a column, so a loaded message has none.
LoadMessages(userAddr, peerAddr) ==
  LET rows == SelectSeq(msgdb, LAMBDA r : r.user = userAddr /\ r.peer = peerAddr) IN
  [i \in 1..Len(rows) |-> [id |-> rows[i].id, sender |-> rows[i].sender,
                           status |-> "", content |-> rows[i].content]]

LoadAllChats(userAddr) == [p \in Users |-> LoadMessages(userAddr, p)]

\* FindSessionByProtocolAddress: the key of the session whose client has the
\* address, "" when there is none.
FindSessionByProtocolAddress(addr) ==
  IF \E k \in Users : sessions[k].exists /\ sessions[k].client /\ k = addr
    THEN addr ELSE ""

Budget == mops < MaxMsgOps

\* The handler or callback returns.
Served(op, user, peer, ok, blocked, failedAt) ==
  /\ mlast' = [op |-> op, user |-> user, peer |-> peer, ok |-> ok,
               blocked |-> blocked, failedAt |-> failedAt]
  /\ mops' = mops + 1
  /\ UNCHANGED chanVars
  /\ UNCHANGED vaultVars
  /\ UNCHANGED <<slast, ulast, ltask, sock, boot>>

\* The handler or callback returns and has touched no connection.
Done(op, user, peer, ok, blocked, failedAt) ==
  /\ Served(op, user, peer, ok, blocked, failedAt)
  /\ UNCHANGED <<ping, stream>>

\* X3DH keys.  The identity and prekeys of a client are told apart by the
\* number of the session whose InitializeX3DH made them (gen, 0 when the
\* client has none); opk says whether the one-time prekey of that generation
\* is still unused; pub is the generation of the bundle published to the
\* DHT last.  A key bundle names the generation it was published from and
\* whether it offers the one-time prekey.
NoKeys == [gen |-> 0, opk |-> FALSE, pub |-> 0]
NoBundle == [gen |-> 0, opk |-> FALSE]

\* client.NewClient: the client of a fresh session has no X3DH keys yet; the
\* bundle an earlier client published stays in the DHT.
NewClient(w) == [x3dh EXCEPT ![w] = [gen |-> 0, opk |-> FALSE, pub |-> @.pub]]

\* InitializeX3DH on the new client: a new identity, signed prekey and
\* one-time prekey, published as the wallet's bundle.
InitializeX3DH(w) ==
  [x3dh EXCEPT ![w] = [gen |-> epoch[w] + 1, opk |-> TRUE, pub |-> epoch[w] + 1]]

\* DiscoverKeyBundle: the bundle published for the wallet last.
DiscoverKeyBundle(p) == [gen |-> x3dh[p].pub, opk |-> TRUE]

\* GetCachedKeyBundle, and CacheKeyBundle of a discovered bundle when the
\* cache has none: a cached bundle is never refreshed.
CachedOrDiscovered(u, p) ==
  IF bundleCache[u][p] # NoBundle THEN bundleCache
  ELSE [bundleCache EXCEPT ![u][p] = DiscoverKeyBundle(p)]

\* POST /api/initialize.  `name` is the username of the body ("" when none),
\* `reconnectOk` the result of ConnectToRelay on an existing session, and
\* `outcome` the first step of a fresh initialization that fails.
HandleInitialize(a, name, reconnectOk, outcome) ==
  LET w == NormalizeAddress(a)
      username == IF name = "" THEN userRows[w] ELSE name
      rejected == IF name = "" THEN userRows[w] = "" ELSE ~IsUsernameAvailable(name, w)
      existing == GetSession(w)
      active == existing.exists /\ existing.client
  IN
  /\ Budget
  /\ UNCHANGED <<contacts, msgdb, relay, wsConn, wsLog, clock>>
  /\ IF rejected
       THEN /\ UNCHANGED <<sessions, usernameToAddress, addressToUsername, userRows,
                           dhtBundles, history>>
            /\ UNCHANGED keyVars
            /\ Done("initialize", w, "", FALSE, FALSE, "username")
     ELSE IF active /\ (existing.relay \/ reconnectOk)
       THEN \* "Session active" / "Session active, relay reconnected"
            /\ sessions' = [sessions EXCEPT ![w].relay = TRUE]
            /\ UNCHANGED <<usernameToAddress, addressToUsername, userRows,
                           dhtBundles, history>>
            /\ UNCHANGED keyVars
            /\ Done("initialize", w, "", TRUE, FALSE, "")
       ELSE \* a fresh session, after CleanupSession of one that cannot reconnect
            LET cleaned == IF active THEN CleanupSession(w) ELSE sessions IN
            /\ sessions' = [cleaned EXCEPT ![w] = SessionAfter(outcome)]
            /\ history' = [history EXCEPT ![w] = LoadAllChats(w)]
            /\ usernameToAddress' = [usernameToAddress EXCEPT ![LowerName(username)] = w]
            /\ addressToUsername' = [addressToUsername EXCEPT ![w] = username]
            /\ dhtBundles' = IF outcome = "ok" THEN dhtBundles \cup {w} ELSE dhtBundles
            /\ userRows' = IF outcome = "ok" THEN SaveUser(w, username) ELSE userRows
            /\ epoch' = [epoch EXCEPT ![w] = @ + 1]
            /\ x3dh' = IF outcome = "ok" THEN InitializeX3DH(w) ELSE NewClient(w)
            /\ bundleCache' = [bundleCache EXCEPT ![w] = [p \in Users |-> NoBundle]]
            /\ Done("initialize", w, "", outcome = "ok", FALSE,
                    IF outcome = "ok" THEN "" ELSE outcome)

\* UpdateUsername: UPDATE users SET username WHERE wallet_address; no row, no
\* change.
UpdateUsername(walletAddr, newUsername) ==
  IF userRows[walletAddr] # "" THEN [userRows EXCEPT ![walletAddr] = newUsername]
  ELSE userRows

\* POST /api/update-username.  session.Username is the name the address
\* index holds for the wallet (both are written together).
HandleUpdateUsername(a, newUsername) ==
  LET walletAddr == NormalizeAddress(a)
      oldUsername == addressToUsername[walletAddr]
      cleared == IF oldUsername # ""
                   THEN [usernameToAddress EXCEPT ![LowerName(oldUsername)] = ""]
                   ELSE usernameToAddress
  IN
  /\ Budget
  /\ UNCHANGED keyVars
  /\ UNCHANGED <<sessions, dhtBundles, contacts, history, msgdb, relay, wsConn, wsLog,
                 clock>>
  /\ IF newUsername = "" \/ ~GetUserSession(a)
       THEN /\ UNCHANGED <<usernameToAddress, addressToUsername, userRows>>
            /\ Done("rename", walletAddr, "", FALSE, FALSE, "request")
     ELSE IF ~IsUsernameAvailable(newUsername, walletAddr)
       THEN /\ UNCHANGED <<usernameToAddress, addressToUsername, userRows>>
            /\ Done("rename", walletAddr, "", FALSE, FALSE, "username")
       ELSE /\ userRows' = UpdateUsername(walletAddr, newUsername)
            /\ usernameToAddress' = [cleared EXCEPT ![LowerName(newUsername)] = walletAddr]
            /\ addressToUsername' = [addressToUsername EXCEPT ![walletAddr] = newUsername]
            /\ Done("rename", walletAddr, "", TRUE, FALSE, "")

\* CleanupSession called for a wallet, as HandleInitialize and
\* HandleDeleteAccount call it.
CleanupSessionCall(a) ==
  LET address == NormalizeAddress(a) IN
  /\ Budget
  /\ sessions' = CleanupSession(address)
  /\ UNCHANGED keyVars
  /\ UNCHANGED <<usernameToAddress, addressToUsername, userRows, dhtBundles, contacts,
                 history, msgdb, relay, wsConn, wsLog, clock>>
  /\ Done("cleanup", address, "", TRUE, FALSE, "")

\* DeleteUserData: DELETE FROM messages WHERE user_address = ?, then DELETE
\* FROM users WHERE wallet_address = ?.  The connection is opened without
\* foreign-key enforcement, so ON DELETE CASCADE removes nothing.
DeleteUserMessages(userAddr) == SelectSeq(msgdb, LAMBDA r : r.user # userAddr)
DeleteUserRecord(userAddr) == [userRows EXCEPT ![userAddr] = ""]

\* POST /api/delete-account: a is the wallet of the session header, b the
\* wallet of the request body.
HandleDeleteAccount(a, b) ==
  LET walletAddr == NormalizeAddress(b)
      username == addressToUsername[walletAddr]
  IN
  /\ Budget
  /\ UNCHANGED keyVars
  /\ UNCHANGED <<dhtBundles, contacts, history, relay, wsLog, clock, stream>>
  /\ IF ~GetUserSession(a)
       THEN /\ UNCHANGED <<sessions, usernameToAddress, addressToUsername, userRows,
                           msgdb, wsConn, ping>>
            /\ Served("delete", walletAddr, "", FALSE, FALSE, "session")
     ELSE IF NormalizeAddress(a) # walletAddr
       THEN /\ UNCHANGED <<sessions, usernameToAddress, addressToUsername, userRows,
                           msgdb, wsConn, ping>>
            /\ Served("delete", walletAddr, "", FALSE, FALSE, "request")
       ELSE /\ wsConn' = [wsConn EXCEPT ![walletAddr] = FALSE]
            /\ ping' = [ping EXCEPT ![walletAddr] = "ok"]
            /\ usernameToAddress' =
                 IF username = "" THEN usernameToAddress
                 ELSE [usernameToAddress EXCEPT ![LowerName(username)] = ""]
            /\ addressToUsername' = [addressToUsername EXCEPT ![walletAddr] = ""]
            /\ msgdb' = DeleteUserMessages(walletAddr)
            /\ userRows' = DeleteUserRecord(walletAddr)
            /\ sessions' = CleanupSession(walletAddr)
            /\ Served("delete", walletAddr, "", TRUE, FALSE, "")

\* A frame written to the connection of wallet r.
Frame(log, r, msg) == [log EXCEPT ![r] = Append(@, msg)]

\* BroadcastUserAction / SendWSMessage: unicast, no block filter; an error
\* (logged by the callers) when the wallet has no connection.
SendWSMessage(r, msg) ==
  IF wsConn[r] THEN Frame(wsLog, r, msg) ELSE wsLog

\* POST /api/block-contact
HandleBlockContact(a, c) ==
  LET u == NormalizeAddress(a)
      normalizedContact == NormalizeAddress(c)
  IN
  /\ Budget
  /\ UNCHANGED keyVars
  /\ UNCHANGED <<sessions, usernameToAddress, addressToUsername, userRows, dhtBundles,
                 history, msgdb, relay, wsConn, clock>>
  /\ IF ~GetUserSession(a)
       THEN UNCHANGED <<contacts, wsLog>> /\ Done("block", u, normalizedContact, FALSE, FALSE, "")
       ELSE /\ contacts' = [contacts EXCEPT ![u][normalizedContact] = "blocked"]
            /\ wsLog' = SendWSMessage(normalizedContact, WSMessage("user_action", u, 0, ""))
            /\ Done("block", u, normalizedContact, TRUE, FALSE, "")

\* POST /api/unblock-contact: UPDATE ... SET is_blocked = 0 on the row, if any.
HandleUnblockContact(a, c) ==
  LET u == NormalizeAddress(a)
      normalizedContact == NormalizeAddress(c)
  IN
  /\ Budget
  /\ UNCHANGED keyVars
  /\ UNCHANGED <<sessions, usernameToAddress, addressToUsername, userRows, dhtBundles,
                 history, msgdb, relay, wsConn, clock>>
  /\ IF ~GetUserSession(a)
       THEN UNCHANGED <<contacts, wsLog>> /\ Done("unblock", u, normalizedContact, FALSE, FALSE, "")
       ELSE /\ contacts' = [contacts EXCEPT ![u][normalizedContact] =
                              IF @ = "none" THEN "none" ELSE "unblocked"]
            /\ wsLog' = SendWSMessage(normalizedContact, WSMessage("user_action", u, 0, ""))
            /\ Done("unblock", u, normalizedContact, TRUE, FALSE, "")

\* The recipient of a send request: an address, or a username.
RecipientInputs == [kind : {"addr"}, addr : AddrInputs, name : {""}]
                     \cup [kind : {"name"}, addr : {[wallet |-> "", form |-> ""]}, name : Usernames]

\* The wallet a recipient resolves to: a username goes through the
\* username index ("" when the name is not in it).
ResolveRecipient(rcpt) ==
  IF rcpt.kind = "name" THEN usernameToAddress[LowerName(rcpt.name)]
  ELSE NormalizeAddress(rcpt.addr)

\* Sends in progress.  next is Client.GetNextSequenceNumber's counter per
\* (sender, peer); task is what a goroutine serving POST /api/send holds
\* between the sequence number and SendRatchetMessage; wire is the relay
\* connection, which delivers in the order it was written to; got lists
\* the sequence numbers of the messages appended to a recipient's history.
IdleSend == [pc |-> "idle", from |-> "", user |-> "", peer |-> "", ts |-> 0, seq |-> 0,
             content |-> ""]
NoStream == [next |-> [u \in Users |-> [p \in Users |-> 0]],
             task |-> [t \in Tasks |-> IdleSend],
             wire |-> <<>>,
             got |-> <<>>]

\* POST /api/send
HandleSendMessage(a, rcpt, content) ==
  LET u == NormalizeAddress(a)
      normalizedRecipient == ResolveRecipient(rcpt)
      p == normalizedRecipient
      wasBlocked == p \in Users /\ contacts[p][u] = "blocked"
      msgID == clock
  IN
  /\ Budget
  /\ UNCHANGED <<x3dh, epoch>>
  /\ UNCHANGED <<sessions, usernameToAddress, addressToUsername, userRows, dhtBundles,
                 contacts, wsConn, wsLog, clock>>
  /\ IF ~GetUserSession(a) \/ p \notin Users
       THEN \* no session; or a name that is no username and no address of a peer
            /\ UNCHANGED <<history, msgdb, relay, bundleCache>>
            /\ Done("send", u, p, FALSE, FALSE, "")
     ELSE IF IsBlocked(p, u)
       THEN \* behave as if sent: local copy only
            LET newMessage == [id |-> msgID, sender |-> "You", status |-> "sent",
                               content |-> content] IN
            /\ history' = [history EXCEPT ![u][p] = Append(@, newMessage)]
            /\ msgdb' = SaveMessage(u, p, newMessage)
            /\ UNCHANGED <<relay, bundleCache>>
            /\ Done("send", u, p, TRUE, wasBlocked, "")
     ELSE IF bundleCache[u][p] = NoBundle /\ p \notin dhtBundles
       THEN \* DiscoverKeyBundle fails
            /\ UNCHANGED <<history, msgdb, relay, bundleCache>>
            /\ Done("send", u, p, FALSE, wasBlocked, "")
     ELSE IF ~(sessions[u].relay /\ sessions[u].ready)
       THEN \* SendRatchetMessage fails
            /\ bundleCache' = CachedOrDiscovered(u, p)
            /\ UNCHANGED <<history, msgdb, relay>>
            /\ Done("send", u, p, FALSE, wasBlocked, "")
       ELSE LET newMessage == [id |-> msgID, sender |-> "You", status |-> "delivered",
                               content |-> content] IN
            /\ relay' = relay \cup {[from |-> HexToAddress(a), to |-> p, ts |-> clock,
                                     content |-> content]}
            /\ bundleCache' = CachedOrDiscovered(u, p)
            /\ history' = [history EXCEPT ![u][p] = Append(@, newMessage)]
            /\ msgdb' = SaveMessage(u, p, newMessage)
            /\ Done("send", u, p, TRUE, wasBlocked, "")

\* OnMessageReceived(walletAddr, msg), the callback HandleInitialize installed:
\* what it does with a message the client hands to it.
Deliver(walletAddr, msg) ==
  LET session == GetSession(walletAddr)
      found == FindSessionByProtocolAddress(msg.from)
      senderAddr == IF found = "" THEN msg.from ELSE found
      wasBlocked == contacts[walletAddr][msg.from] = "blocked"
      message == [id |-> msg.ts, sender |-> senderAddr, status |-> "delivered",
                  content |-> msg.content]
  IN
  /\ msg.to = walletAddr
  /\ session.ready /\ session.relay
  /\ UNCHANGED keyVars
  /\ UNCHANGED <<sessions, usernameToAddress, addressToUsername, userRows, dhtBundles,
                 contacts, wsConn, clock>>
  /\ IF IsBlocked(walletAddr, senderAddr)
       THEN \* dropped silently
            UNCHANGED <<history, msgdb, wsLog>>
       ELSE /\ history' = [history EXCEPT ![walletAddr][senderAddr] = Append(@, message)]
            /\ msgdb' = SaveMessage(walletAddr, senderAddr, message)
            /\ wsLog' = SendWSMessage(walletAddr,
                                     WSMessage("message", senderAddr, msg.ts, msg.content))
  /\ Served("receive", walletAddr, senderAddr, TRUE, wasBlocked, "")
  /\ UNCHANGED ping

OnMessageReceived(walletAddr, msg) ==
  /\ Budget
  /\ msg \in relay
  /\ relay' = relay \ {msg}
  /\ Deliver(walletAddr, msg)
  /\ UNCHANGED stream

\* The relay hands a message to the client a second time (delivery is at
\* least once): the callback runs again, the message stays in flight.
OnMessageReceivedAgain(walletAddr, msg) ==
  /\ Budget
  /\ msg \in relay
  /\ UNCHANGED relay
  /\ Deliver(walletAddr, msg)
  /\ UNCHANGED stream

\* Bound: sequence numbers handed out in all.
MaxSends == 2

SeqsHandedOut ==
  LET Sum(u) == stream.next[u]["alice"] + stream.next[u]["bob"] + stream.next[u]["carol"] IN
  Sum("alice") + Sum("bob") + Sum("carol")

\* Client.GetNextSequenceNumber(recipientAddr): the next number of the peer,
\* handed out once.
GetNextSequenceNumber(u, p) == stream.next[u][p] + 1

\* HandleSendMessage served by goroutine t, up to the DirectMessage: the
\* session, the recipient, the block check, the key bundle, the message id
\* and the sequence number.  A request that ends before that is served by
\* HandleSendMessage in one step.
SendPrepare(t, a, rcpt, content) ==
  LET u == NormalizeAddress(a)
      p == ResolveRecipient(rcpt)
      reaches == /\ GetUserSession(a) /\ p \in Users /\ ~IsBlocked(p, u)
                 /\ (bundleCache[u][p] # NoBundle \/ p \in dhtBundles)
  IN
  /\ stream.task[t].pc = "idle"
  /\ IF ~reaches
       THEN HandleSendMessage(a, rcpt, content)
       ELSE /\ SeqsHandedOut < MaxSends
            /\ bundleCache' = CachedOrDiscovered(u, p)
            /\ stream' = [stream EXCEPT
                 !.next[u][p] = GetNextSequenceNumber(u, p),
                 !.task[t] = [pc |-> "send", from |-> HexToAddress(a), user |-> u,
                              peer |-> p, ts |-> clock,
                              seq |-> GetNextSequenceNumber(u, p), content |-> content]]
            /\ UNCHANGED chanVars
            /\ UNCHANGED vaultVars
            /\ UNCHANGED <<sessions, usernameToAddress, addressToUsername, userRows,
                           dhtBundles, contacts, history, msgdb, relay, wsConn, wsLog,
                           clock, mlast, mops, x3dh, epoch, slast, ulast, ping, ltask, sock, boot>>

\* HandleSendMessage served by goroutine t, from SendRatchetMessage on: the
\* message is written to the relay connection, appended to the sender's
\* history and saved.
SendRatchet(t) ==
  LET k == stream.task[t]
      u == k.user
      p == k.peer
      wasBlocked == contacts[p][u] = "blocked"
      newMessage == [id |-> k.ts, sender |-> "You", status |-> "delivered",
                     content |-> k.content]
      sent == [msg |-> [from |-> k.from, to |-> p, ts |-> k.ts, content |-> k.content],
               seq |-> k.seq]
  IN
  /\ k.pc = "send"
  /\ UNCHANGED keyVars
  /\ UNCHANGED <<sessions, usernameToAddress, addressToUsername, userRows, dhtBundles,
                 contacts, relay, wsConn, wsLog, clock, ping>>
  /\ IF ~(sessions[u].relay /\ sessions[u].ready)
       THEN /\ stream' = [stream EXCEPT !.task[t] = IdleSend]
            /\ UNCHANGED <<history, msgdb>>
            /\ Served("send", u, p, FALSE, wasBlocked, "")
       ELSE /\ stream' = [stream EXCEPT !.task[t] = IdleSend, !.wire = Append(@, sent)]
            /\ history' = [history EXCEPT ![u][p] = Append(@, newMessage)]
            /\ msgdb' = SaveMessage(u, p, newMessage)
            /\ Served("send", u, p, TRUE, wasBlocked, "")

\* The relay connection delivers its oldest message, and the client of the
\* recipient runs OnMessageReceived on it.
StreamReceive ==
  /\ stream.wire # <<>>
  /\ LET h == Head(stream.wire)
         kept == ~IsBlocked(h.msg.to, h.msg.from)
     IN
     /\ Deliver(h.msg.to, h.msg)
     /\ stream' = [stream EXCEPT
          !.wire = Tail(@),
          !.got = IF kept THEN Append(@, [from |-> h.msg.from, to |-> h.msg.to,
                                           seq |-> h.seq])
                  ELSE @]
  /\ UNCHANGED relay

\* broadcastOnlineStatus: an "online" frame to every registered connection
\* whose owner has not blocked the sender.
broadcastOnlineStatus(conns, senderAddress) ==
  [r \in Users |->
     IF conns[r] /\ ~IsContactBlocked(r, senderAddress)
       THEN Append(wsLog[r], WSMessage("online", senderAddress, 0, ""))
       ELSE wsLog[r]]

\* broadcastWS: a frame to every registered connection, whoever its owner.
broadcastWS(type, about) ==
  [r \in Users |->
     IF wsConn[r] THEN Append(wsLog[r], WSMessage(type, about, 0, ""))
     ELSE wsLog[r]]

\* GET /ws?address=...: the upgrade succeeds, the connection is registered
\* and presence "true" is broadcast.
WsConnect(a) ==
  LET address == NormalizeAddress(a)
      conns == [wsConn EXCEPT ![address] = TRUE]
  IN
  /\ Budget
  /\ ~wsConn[address]
  /\ wsConn' = conns
  /\ ping' = [ping EXCEPT ![address] = "ok"]
  /\ UNCHANGED stream
  /\ wsLog' = broadcastOnlineStatus(conns, address)
  /\ UNCHANGED keyVars
  /\ UNCHANGED <<sessions, usernameToAddress, addressToUsername, userRows, dhtBundles,
                 contacts, history, msgdb, relay, clock>>
  /\ Served("connect", address, "", TRUE, FALSE, "")

\* The read loop of handleWebSocket ends: the deferred cleanup removes the
\* connection and broadcasts presence "false".
WsDisconnect(address) ==
  LET conns == [wsConn EXCEPT ![address] = FALSE] IN
  /\ Budget
  /\ wsConn[address]
  /\ wsConn' = conns
  /\ ping' = [ping EXCEPT ![address] = "ok"]
  /\ UNCHANGED stream
  /\ wsLog' = broadcastOnlineStatus(conns, address)
  /\ UNCHANGED keyVars
  /\ UNCHANGED <<sessions, usernameToAddress, addressToUsername, userRows, dhtBundles,
                 contacts, history, msgdb, relay, clock>>
  /\ Served("disconnect", address, "", TRUE, FALSE, "")

\* Writes to the connection registered for wallet w start to fail, while its
\* read loop still waits in ReadMessage (which has no deadline).
WriteBreaks(w) ==
  /\ wsConn[w]
  /\ ping[w] = "ok"
  /\ ping' = [ping EXCEPT ![w] = "broken"]
  /\ UNCHANGED chanVars
  /\ UNCHANGED keyVars
  /\ UNCHANGED vaultVars
  /\ UNCHANGED <<sessions, usernameToAddress, addressToUsername, userRows, dhtBundles,
                 contacts, history, msgdb, relay, wsConn, wsLog, clock, mlast, mops,
                 slast, ulast, stream, ltask, sock, boot>>

\* startPingRoutine, one tick: the registered connections are copied under
\* the read lock and a ping is written to each; a write that fails is logged,
\* and nothing else is done about it.
startPingRoutine ==
  /\ ping' = [w \in Users |-> IF wsConn[w] /\ ping[w] = "broken" THEN "failed" ELSE ping[w]]
  /\ UNCHANGED chanVars
  /\ UNCHANGED keyVars
  /\ UNCHANGED vaultVars
  /\ UNCHANGED <<sessions, usernameToAddress, addressToUsername, userRows, dhtBundles,
                 contacts, history, msgdb, relay, wsConn, wsLog, clock, mlast, mops,
                 slast, ulast, stream, ltask, sock, boot>>

StatusInputs == {"away", "sleeping"}
validStatuses == {"online", "away", "busy", "offline"}

\* POST /api/update-status
HandleUpdateStatus(a, status) ==
  LET walletAddr == NormalizeAddress(a) IN
  /\ Budget
  /\ UNCHANGED keyVars
  /\ UNCHANGED <<sessions, usernameToAddress, addressToUsername, userRows, dhtBundles,
                 contacts, history, msgdb, relay, wsConn, clock>>
  /\ IF ~GetUserSession(a) \/ status \notin validStatuses
       THEN UNCHANGED wsLog /\ Done("status", walletAddr, "", FALSE, FALSE, "")
       ELSE /\ wsLog' = broadcastWS("status_update", walletAddr)
            /\ Done("status", walletAddr, "", TRUE, FALSE, "")

\* POST /api/update-profile: the users row is updated; nothing is broadcast.
HandleUpdateProfile(a) ==
  LET walletAddr == NormalizeAddress(a) IN
  /\ Budget
  /\ UNCHANGED keyVars
  /\ UNCHANGED <<sessions, usernameToAddress, addressToUsername, userRows, dhtBundles,
                 contacts, history, msgdb, relay, wsConn, wsLog, clock>>
  /\ Done("profile", walletAddr, "", GetUserSession(a), FALSE, "")

\* A millisecond passes.
Tick ==
  /\ clock < MaxClock
  /\ clock' = clock + 1
  /\ UNCHANGED keyVars
  /\ UNCHANGED <<sessions, usernameToAddress, addressToUsername, userRows, dhtBundles,
                 contacts, history, msgdb, relay, wsConn, wsLog, mlast, mops>>
  /\ UNCHANGED chanVars
  /\ UNCHANGED vaultVars
  /\ UNCHANGED probeVars

\* DeleteMessage: DELETE FROM messages WHERE user_address = ? AND
\* peer_address = ? AND id = ?.
DeleteMessage(userAddr, peerAddr, messageID) ==
  SelectSeq(msgdb, LAMBDA r : ~(r.user = userAddr /\ r.peer = peerAddr /\ r.id = messageID))

\* DeleteChat: DELETE FROM messages WHERE user_address = ? AND peer_address = ?.
DeleteChat(userAddr, peerAddr) ==
  SelectSeq(msgdb, LAMBDA r : ~(r.user = userAddr /\ r.peer = peerAddr))

\* removeFromPendingMessages: the entries with the id leave the list kept
\* under the address.
removeFromPendingMessages(recipientAddr, messageID) ==
  [pending EXCEPT ![recipientAddr] = SelectSeq(@, LAMBDA m : m.id # messageID)]

\* clearPendingMessagesForChat: the key of the address is deleted.
clearPendingMessagesForChat(recipientAddr) == [pending EXCEPT ![recipientAddr] = <<>>]

\* What the two handlers below leave alone, and the response they send.
DoneChat(op, user, peer, ok) ==
  /\ mlast' = [op |-> op, user |-> user, peer |-> peer, ok |-> ok, blocked |-> FALSE,
               failedAt |-> ""]
  /\ mops' = mops + 1
  /\ UNCHANGED chanVars
  /\ UNCHANGED keyVars
  /\ UNCHANGED probeVars
  /\ UNCHANGED <<dtask, dlog, vlast, vops>>
  /\ UNCHANGED <<sessions, usernameToAddress, addressToUsername, userRows, dhtBundles,
                 contacts, relay, wsConn, clock>>

\* POST /api/delete-message
HandleDeleteMessage(a, c, messageID, deleteForEveryone) ==
  LET u == NormalizeAddress(a)
      peerAddress == NormalizeAddress(c)
      messages == history[u][peerAddress]
      found == \E i \in 1..Len(messages) : messages[i].id = messageID
      newMessages == SelectSeq(messages, LAMBDA m : m.id # messageID)
  IN
  /\ Budget
  /\ IF ~GetUserSession(a) \/ ~found
       THEN /\ UNCHANGED <<history, msgdb, pending, wsLog>>
            /\ DoneChat("delete-message", u, peerAddress, FALSE)
       ELSE /\ history' = [history EXCEPT ![u][peerAddress] = newMessages]
            /\ msgdb' = DeleteMessage(u, peerAddress, messageID)
            /\ pending' = removeFromPendingMessages(peerAddress, messageID)
            /\ wsLog' = IF deleteForEveryone
                          THEN SendWSMessage(peerAddress, WSMessage("message_deleted", u, messageID, ""))
                          ELSE wsLog
            /\ DoneChat("delete-message", u, peerAddress, TRUE)

\* POST /api/delete-chat
HandleDeleteChat(a, c) ==
  LET u == NormalizeAddress(a)
      peerAddress == NormalizeAddress(c)
  IN
  /\ Budget
  /\ UNCHANGED wsLog
  /\ IF ~GetUserSession(a)
       THEN /\ UNCHANGED <<history, msgdb, pending>>
            /\ DoneChat("delete-chat", u, peerAddress, FALSE)
       ELSE /\ history' = [history EXCEPT ![u][peerAddress] = <<>>]
            /\ msgdb' = DeleteChat(u, peerAddress)
            /\ pending' = clearPendingMessagesForChat(peerAddress)
            /\ DoneChat("delete-chat", u, peerAddress, TRUE)

\* ------------------------------------------------------------ lock discipline
\* The shared-state locks, in the order of the lock table: SessionsLock,
\* WsLock, OnlineLock, PendingLock, MediaLock.
Locks == {"A", "B", "C", "D", "E"}
Rank(l) == CASE l = "A" -> 1 [] l = "B" -> 2 [] l = "C" -> 3 [] l = "D" -> 4 [] OTHER -> 5

\* The steps of a function, as far as the locks see them: Lock, RLock,
\* Unlock, RUnlock, an I/O call that is awaited, or work on memory.
LockStep(l) == [kind |-> "lock", lock |-> l, io |-> ""]
RLockStep(l) == [kind |-> "rlock", lock |-> l, io |-> ""]
UnlockStep(l) == [kind |-> "unlock", lock |-> l, io |-> ""]
RUnlockStep(l) == [kind |-> "runlock", lock |-> l, io |-> ""]
IOStep(what) == [kind |-> "io", lock |-> "", io |-> what]
MemStep == [kind |-> "mem", lock |-> "", io |-> ""]

\* Every wsConnection has a write mutex of its own; two connections.
Conns == {"M1", "M2"}
\* WriteMessage or WriteJSON on connection c: one frame.
FrameStep(c) == [kind |-> "frame", lock |-> c, io |-> "socket"]
\* An assignment to MessageHistory of session owner, made by a handler that
\* serves session actor.
HistoryWrite(actor, owner) ==
  [kind |-> "write", lock |-> "", io |-> "", actor |-> actor, owner |-> owner]
\* GetSession (and GetUserSession through it): the map is read under
\* SessionsLock.RLock.
GetSessionSteps == <<RLockStep("A"), MemStep, RUnlockStep("A")>>

\* A SendWSMessage that writes the frame without the connection's mutex.
SendWSMessageBare ==
  <<RLockStep("B"), MemStep, RUnlockStep("B"), FrameStep("M1")>>
\* SendWSMessage: the connection is looked up under WsLock.RLock, the frame
\* is written under the connection's mutex, released by defer.
SendWSMessageSteps ==
  <<RLockStep("B"), MemStep, RUnlockStep("B"),
    LockStep("M1"), FrameStep("M1"), UnlockStep("M1")>>

\* broadcastWS: under WsLock.RLock, every connection in turn: mutex, one
\* frame, unlock.
broadcastWSSteps ==
  <<RLockStep("B"),
    LockStep("M1"), FrameStep("M1"), UnlockStep("M1"),
    LockStep("M2"), FrameStep("M2"), UnlockStep("M2"),
    RUnlockStep("B")>>

\* HandleSendMessage, for session s1: GetUserSession, IsBlocked,
\* DiscoverKeyBundle, SendRatchetMessage, the append to the session's
\* history, SaveMessage.
HandleSendMessageSteps ==
  GetSessionSteps
    \o <<IOStep("database"), IOStep("dht"), IOStep("relay"),
         HistoryWrite("s1", "s1"), IOStep("database")>>

\* OnMessageReceived, the relay callback of session s1: GetSession,
\* IsBlocked, the append to the session's history, SaveMessage,
\* SendWSMessage.
OnMessageReceivedSteps ==
  GetSessionSteps
    \o <<IOStep("database"), HistoryWrite("s1", "s1"), IOStep("database")>>
    \o SendWSMessageSteps

\* HandleDeleteMessage with delete_for_everyone, for session s2 with peer
\* s1: the own history is rewritten, the rows are marked, then the peer's
\* session is fetched and its history rewritten; the peer is notified.
HandleDeleteMessageSteps ==
  GetSessionSteps
    \o <<HistoryWrite("s2", "s2"), IOStep("database"), IOStep("database")>>
    \o GetSessionSteps
    \o <<HistoryWrite("s2", "s1"), IOStep("database"),
         LockStep("D"), MemStep, UnlockStep("D")>>
    \o SendWSMessageSteps

\* CreateSession: SessionsLock is taken and released by defer, after
\* LoadAllChats has read the database.
CreateSessionSteps ==
  <<LockStep("A"), MemStep, IOStep("database"), UnlockStep("A")>>

\* CleanupSession: the entry is deleted under the lock, the DHT node is
\* stopped after it.
CleanupSessionSteps ==
  <<LockStep("A"), MemStep, UnlockStep("A"), IOStep("dht")>>

\* broadcastOnlineStatus: under WsLock.RLock (released by defer), for a
\* connection: IsContactBlocked, then WriteMessage.
broadcastOnlineStatusSteps ==
  <<RLockStep("B"), IOStep("database"),
    LockStep("M1"), FrameStep("M1"), UnlockStep("M1"), RUnlockStep("B")>>

\* BootstrapDHTNode: newNode.Bootstrap under SessionsLock.RLock; then the
\* republishing goroutines are started under a second RLock.
BootstrapDHTNodeSteps ==
  <<RLockStep("A"), IOStep("dht"), RUnlockStep("A"),
    RLockStep("A"), MemStep, RUnlockStep("A")>>

\* A HandleDeleteAccount that keeps WsLock and OnlineLock while it takes
\* SessionsLock.
HandleDeleteAccountNested ==
  <<LockStep("B"), MemStep, LockStep("C"), MemStep, LockStep("A"), MemStep,
    UnlockStep("A"), UnlockStep("C"), UnlockStep("B"),
    IOStep("relay"), IOStep("database")>> \o CleanupSessionSteps
\* HandleDeleteAccount: WsLock, OnlineLock and SessionsLock one after the
\* other, each released before the next; Disconnect, DeleteUserData and
\* CleanupSession follow.
HandleDeleteAccountSteps ==
  <<LockStep("B"), MemStep, UnlockStep("B"),
    LockStep("C"), MemStep, UnlockStep("C"),
    LockStep("A"), MemStep, UnlockStep("A"),
    IOStep("relay"), IOStep("database")>> \o CleanupSessionSteps

\* handleWebSocket: the connection is registered, the user marked online,
\* presence broadcast; ReadMessage is awaited and a ping answered with a
\* pong; the deferred cleanup does the reverse and updates last_online.
handleWebSocketSteps ==
  <<LockStep("B"), MemStep, UnlockStep("B"),
    LockStep("C"), MemStep, UnlockStep("C")>>
    \o broadcastOnlineStatusSteps
    \o <<IOStep("socket"),
         LockStep("M2"), FrameStep("M2"), UnlockStep("M2"),
         IOStep("socket"),
         LockStep("B"), MemStep, UnlockStep("B"),
         LockStep("C"), MemStep, UnlockStep("C"),
         IOStep("database")>>
    \o broadcastOnlineStatusSteps

\* startPingRoutine, one tick: the map is copied under the read lock, the
\* pings are written after it.
startPingRoutineSteps ==
  <<RLockStep("B"), MemStep, RUnlockStep("B"),
    LockStep("M1"), FrameStep("M1"), UnlockStep("M1"),
    LockStep("M2"), FrameStep("M2"), UnlockStep("M2")>>

\* storeEncryptedPendingMessage: the list is appended to under PendingLock.
storeEncryptedPendingMessageSteps ==
  <<LockStep("D"), MemStep, UnlockStep("D")>>

\* HandleUploadMedia: the upload to mesh storage and the metadata row come
\* first; MediaStore is written under MediaLock.
HandleUploadMediaSteps ==
  <<IOStep("mesh"), IOStep("database"), LockStep("E"), MemStep, UnlockStep("E")>>

LockOps == {"CreateSession", "CleanupSession", "broadcastOnlineStatus", "BootstrapDHTNode",
            "HandleDeleteAccount", "handleWebSocket", "startPingRoutine",
            "storeEncryptedPendingMessage", "HandleUploadMedia",
            "SendWSMessage", "broadcastWS", "HandleSendMessage",
            "OnMessageReceived", "HandleDeleteMessage"}

StepsOf(op) ==
  CASE op = "CreateSession" -> CreateSessionSteps
    [] op = "CleanupSession" -> CleanupSessionSteps
    [] op = "broadcastOnlineStatus" -> broadcastOnlineStatusSteps
    [] op = "BootstrapDHTNode" -> BootstrapDHTNodeSteps
    [] op = "HandleDeleteAccount" -> HandleDeleteAccountSteps
    [] op = "handleWebSocket" -> handleWebSocketSteps
    [] op = "startPingRoutine" -> startPingRoutineSteps
    [] op = "storeEncryptedPendingMessage" -> storeEncryptedPendingMessageSteps
    [] op = "SendWSMessage" -> SendWSMessageSteps
    [] op = "broadcastWS" -> broadcastWSSteps
    [] op = "HandleSendMessage" -> HandleSendMessageSteps
    [] op = "OnMessageReceived" -> OnMessageReceivedSteps
    [] op = "HandleDeleteMessage" -> HandleDeleteMessageSteps
    [] OTHER -> HandleUploadMediaSteps

\* held: the locks the goroutine holds, each with its mode.
IdleCall == [op |-> "", pc |-> 0, held |-> {}]

\* The step goroutine t is at.
AtStep(t) == StepsOf(ltask[t].op)[ltask[t].pc]
AtKind(t, kinds) == ltask[t].op # "" /\ AtStep(t).kind \in kinds

\* sync.RWMutex: Lock waits until nobody holds the lock; RLock waits while
\* a writer holds it or is waiting for it.
CanLock(l) == \A u \in Tasks : \A m \in {"r", "w"} : <<l, m>> \notin ltask[u].held
CanRLock(t, l) ==
  /\ \A u \in Tasks : <<l, "w">> \notin ltask[u].held
  /\ \A u \in Tasks \ {t} : ~(AtKind(u, {"lock"}) /\ AtStep(u).lock = l)
Blocked(t) ==
  \/ AtKind(t, {"lock"}) /\ ~CanLock(AtStep(t).lock)
  \/ AtKind(t, {"rlock"}) /\ ~CanRLock(t, AtStep(t).lock)

lockFrame == <<channels, members, invites, ctask, clast, joins, cops, posts,
               sessions, usernameToAddress, addressToUsername, userRows, dhtBundles,
               contacts, history, msgdb, relay, wsConn, wsLog, clock, mlast, mops,
               x3dh, epoch, bundleCache, pending, dtask, dlog, vlast, vops, slast, ulast,
               ping, stream, sock, boot>>

\* The goroutine moves past its step, and returns after the last one.
Advance(t, held) ==
  /\ ltask' = [ltask EXCEPT ![t] =
       IF ltask[t].pc = Len(StepsOf(ltask[t].op)) THEN IdleCall
       ELSE [op |-> ltask[t].op, pc |-> ltask[t].pc + 1, held |-> held]]
  /\ UNCHANGED lockFrame

\* Goroutine t enters the function.
StartCall(t, op) ==
  /\ ltask[t].op = ""
  /\ ltask' = [ltask EXCEPT ![t] = [op |-> op, pc |-> 1, held |-> {}]]
  /\ UNCHANGED lockFrame

Acquire(t) ==
  /\ AtKind(t, {"lock", "rlock"})
  /\ ~Blocked(t)
  /\ Advance(t, ltask[t].held \cup
                  {<<AtStep(t).lock, IF AtStep(t).kind = "lock" THEN "w" ELSE "r">>})

Release(t) ==
  /\ AtKind(t, {"unlock", "runlock"})
  /\ Advance(t, ltask[t].held \
                  {<<AtStep(t).lock, IF AtStep(t).kind = "unlock" THEN "w" ELSE "r">>})

\* The awaited I/O call returns.
AwaitIO(t) == AtKind(t, {"io"}) /\ Advance(t, ltask[t].held)

Touch(t) == AtKind(t, {"mem"}) /\ Advance(t, ltask[t].held)

\* The frame is handed to the socket.
WriteFrame(t) == AtKind(t, {"frame"}) /\ Advance(t, ltask[t].held)

\* The slice in the history map is replaced.
WriteHistory(t) == AtKind(t, {"write"}) /\ Advance(t, ltask[t].held)

\* ------------------------------------------------------------ connections
\* The connections one run can open.
MaxConns == 2
ConnIds == 1..MaxConns
NoConn == [addr |-> "", pc |-> "none"]
\* reg: WsConnections (0: no entry), online: OnlineUsers, conn: where the
\* handleWebSocket call of each connection is.
IdleSock ==
  [reg |-> [w \in Users |-> 0], online |-> [w \in Users |-> FALSE],
   conn |-> [c \in ConnIds |-> NoConn]]

sockFrame == <<channels, members, invites, ctask, clast, joins, cops, posts,
               sessions, usernameToAddress, addressToUsername, userRows, dhtBundles,
               contacts, history, msgdb, relay, wsConn, wsLog, clock, mlast, mops,
               x3dh, epoch, bundleCache, pending, dtask, dlog, vlast, vops, slast, ulast,
               ping, stream, ltask, boot>>

ConnAt(c, pc) == sock.conn[c].pc = pc
ConnGoes(c, pc) == [sock.conn EXCEPT ![c].pc = pc]

\* GET /ws?address=...: the address is normalized and the request upgraded;
\* a new wsConnection is made.
handleWebSocketUpgrade(a) ==
  LET address == NormalizeAddress(a) IN
  /\ \E c \in ConnIds :
       /\ ConnAt(c, "none")
       /\ \A d \in ConnIds : d < c => ~ConnAt(d, "none")
       /\ sock' = [sock EXCEPT !.conn[c] = [addr |-> address, pc |-> "register"]]
  /\ UNCHANGED sockFrame

\* WsConnections[address] = wsConn, under WsLock.
handleWebSocketRegister(c) ==
  /\ ConnAt(c, "register")
  /\ sock' = [sock EXCEPT !.reg[sock.conn[c].addr] = c, !.conn = ConnGoes(c, "online")]
  /\ UNCHANGED sockFrame

\* OnlineUsers[address] = true, under OnlineLock; the read loop starts.
handleWebSocketOnline(c) ==
  /\ ConnAt(c, "online")
  /\ sock' = [sock EXCEPT !.online[sock.conn[c].addr] = TRUE, !.conn = ConnGoes(c, "read")]
  /\ UNCHANGED sockFrame

\* ReadMessage returns an error: the client has closed the connection.
handleWebSocketReadEnds(c) ==
  /\ ConnAt(c, "read")
  /\ sock' = [sock EXCEPT !.conn = ConnGoes(c, "unregister")]
  /\ UNCHANGED sockFrame

\* The deferred cleanup: delete(WsConnections, address), under WsLock.
handleWebSocketUnregister(c) ==
  /\ ConnAt(c, "unregister")
  /\ sock' = [sock EXCEPT !.reg[sock.conn[c].addr] = 0, !.conn = ConnGoes(c, "offline")]
  /\ UNCHANGED sockFrame

\* The deferred cleanup: delete(OnlineUsers, address), under OnlineLock;
\* then conn.Close().
handleWebSocketOffline(c) ==
  /\ ConnAt(c, "offline")
  /\ sock' = [sock EXCEPT !.online[sock.conn[c].addr] = FALSE, !.conn = ConnGoes(c, "closed")]
  /\ UNCHANGED sockFrame

\* ------------------------------------------------------------ concurrent Initialize
\* The ClientSession objects one run can make for the wallet.
MaxSessions == 3
SessionIds == 1..MaxSessions
NoObject == [made |-> FALSE, node |-> FALSE, client |-> FALSE, relay |-> FALSE]
IdleInit == [pc |-> "idle", obj |-> 0]
\* reg: Sessions[walletAddr] (0: no entry); obj: every ClientSession made,
\* its DHT node running, its Client set, its relay connection up.
NoBoot ==
  [reg |-> 0, obj |-> [o \in SessionIds |-> NoObject], call |-> [t \in Tasks |-> IdleInit]]

bootFrame == <<channels, members, invites, ctask, clast, joins, cops, posts,
               sessions, usernameToAddress, addressToUsername, userRows, dhtBundles,
               contacts, history, msgdb, relay, wsConn, wsLog, clock, mlast, mops,
               x3dh, epoch, bundleCache, pending, dtask, dlog, vlast, vops, slast, ulast,
               ping, stream, ltask, sock>>

InitAt(t, pc) == boot.call[t].pc = pc
InitGoes(t, pc) == [boot.call EXCEPT ![t].pc = pc]

\* POST /api/initialize for the wallet: body decoded, address and username
\* accepted.
HandleInitializeStart(t) ==
  /\ InitAt(t, "idle")
  /\ \E o \in SessionIds : ~boot.obj[o].made
  /\ boot' = [boot EXCEPT !.call = InitGoes(t, "check")]
  /\ UNCHANGED bootFrame

\* existingSession := GetSession(walletAddr): a session whose Client is set
\* and connected answers "Session active"; otherwise a new one is made.
HandleInitializeCheck(t) ==
  /\ InitAt(t, "check")
  /\ boot' = [boot EXCEPT !.call =
       IF boot.reg # 0 /\ boot.obj[boot.reg].client
         THEN InitGoes(t, "idle") ELSE InitGoes(t, "create")]
  /\ UNCHANGED bootFrame

\* CreateSession: a new ClientSession is stored under the wallet, whatever
\* was there.
HandleInitializeCreate(t) ==
  /\ InitAt(t, "create")
  /\ \E o \in SessionIds :
       /\ ~boot.obj[o].made
       /\ \A d \in SessionIds : d < o => boot.obj[d].made
       /\ boot' = [boot EXCEPT !.reg = o, !.obj[o].made = TRUE,
                               !.call[t] = [pc |-> "node", obj |-> o]]
  /\ UNCHANGED bootFrame

\* session.DHTNode = dht.NewNode(...); Start; BootstrapDHTNode.
HandleInitializeNode(t) ==
  /\ InitAt(t, "node")
  /\ boot' = [boot EXCEPT !.obj[boot.call[t].obj].node = TRUE, !.call = InitGoes(t, "client")]
  /\ UNCHANGED bootFrame

\* session.Client = network.NewClient(privKey); ConnectToRelay.
HandleInitializeClient(t) ==
  /\ InitAt(t, "client")
  /\ boot' = [boot EXCEPT !.obj[boot.call[t].obj].client = TRUE,
                          !.obj[boot.call[t].obj].relay = TRUE,
                          !.call = InitGoes(t, "finish")]
  /\ UNCHANGED bootFrame

\* InitializeX3DH, PublishKeyBundle, the callback, SaveUser, the response.
HandleInitializeFinish(t) ==
  /\ InitAt(t, "finish")
  /\ boot' = [boot EXCEPT !.call[t] = IdleInit]
  /\ UNCHANGED bootFrame

\* ------------------------------------------------------------ offline messages
\* Bound of the offline-message part: operations started.
MaxVaultOps == 3

VBudget == vops < MaxVaultOps

NoVaultOp == [op |-> "", wallet |-> "", found |-> FALSE, drain |-> 0]
NoAddr == [wallet |-> "", form |-> ""]
IdleDrain == [pc |-> "idle", addr |-> NoAddr, taken |-> <<>>, i |-> 0, drain |-> 0,
              epoch |-> 0]

\* The content of a PendingMessage: the text itself, or the JSON of an
\* EncryptedOfflineMessage, whose ciphertext is the text sealed under a key.
PlainContent(text) ==
  [enc |-> FALSE, text |-> text, senderKey |-> 0, spk |-> 0, opk |-> 0, key |-> <<>>,
   rcptKeys |-> NoBundle]

\* What a reader who cannot decrypt sees of an envelope.
Sealed == "ciphertext"

\* protocol.X3DHInitiator: the secret agreed from the sender's identity and
\* the signed prekey (and one-time prekey, when offered) of the bundle.
X3DHInitiator(senderGen, rcpt, keyBundle) ==
  <<senderGen, rcpt, keyBundle.gen, IF keyBundle.opk THEN 1 ELSE 0>>

\* protocol.X3DHResponder: the secret agreed from the sender's identity key of
\* the initial message and the recipient's own signed prekey and one-time
\* prekeys; an error (<<>>) when the one-time prekey named is not there.
X3DHResponder(rcpt, initialMsg) ==
  IF initialMsg.opk # 0 /\ ~x3dh[rcpt].opk THEN <<>>
  ELSE <<initialMsg.senderKey, rcpt, x3dh[rcpt].gen, initialMsg.opk>>

\* DecryptOfflineMessage: the recipient's session, X3DH as responder on the
\* keys the envelope carries, AES-GCM open under the secret.
DecryptOfflineMessage(recipientAddr, encryptedMsg) ==
  LET session == GetSession(recipientAddr)
      secret == X3DHResponder(recipientAddr, encryptedMsg)
  IN
  IF ~session.exists \/ ~session.client \/ ~session.ready THEN [ok |-> FALSE, text |-> ""]
  ELSE IF secret = <<>> \/ secret # encryptedMsg.key THEN [ok |-> FALSE, text |-> ""]
  ELSE [ok |-> TRUE, text |-> encryptedMsg.text]

\* The signed prekey and one-time prekey the client of the wallet holds.
LocalPreKeys(w) == [gen |-> x3dh[w].gen, opk |-> x3dh[w].opk]

\* EncryptOfflineMessage: the sender's session (looked up by the address as
\* written), the recipient's bundle from the client's cache, X3DH as
\* initiator, AES-GCM seal under the secret.  rcptKeys notes the prekeys the
\* recipient held at that moment; no reader of the envelope uses it.
EncryptOfflineMessage(senderAddr, recipientAddr, content) ==
  LET session == GetSession(Written(senderAddr))
      rcpt == NormalizeAddress(recipientAddr)
      keyBundle == bundleCache[NormalizeAddress(senderAddr)][rcpt]
      senderGen == x3dh[NormalizeAddress(senderAddr)].gen
  IN
  IF ~session.exists \/ ~session.client \/ ~session.ready \/ keyBundle = NoBundle
    THEN [ok |-> FALSE, msg |-> PlainContent("")]
  ELSE [ok |-> TRUE,
        msg |-> [enc |-> TRUE, text |-> content,
                 senderKey |-> senderGen, spk |-> keyBundle.gen,
                 opk |-> IF keyBundle.opk THEN 1 ELSE 0,
                 key |-> X3DHInitiator(senderGen, rcpt, keyBundle),
                 rcptKeys |-> LocalPreKeys(rcpt)]]

\* A PendingMessage.  seq numbers the stores: it tells the envelopes apart.
PendingMessage(from, to, content) ==
  [from |-> from, to |-> to, content |-> content, id |-> clock, seq |-> vops + 1]

VaultDone(op, wallet, found, drain) ==
  /\ vlast' = [op |-> op, wallet |-> wallet, found |-> found, drain |-> drain]
  /\ UNCHANGED chanVars
  /\ UNCHANGED probeVars
  /\ UNCHANGED <<sessions, usernameToAddress, addressToUsername, userRows, dhtBundles,
                 contacts, msgdb, relay, wsConn, clock, mlast, mops, epoch, bundleCache>>

\* storePendingMessage(from, to, content, messageID): appended to the list
\* kept under the recipient's address as written.
storePendingMessage(from, to, text) ==
  /\ VBudget
  /\ pending' = [pending EXCEPT ![Written(to)] =
                   Append(@, PendingMessage(from, to, PlainContent(text)))]
  /\ vops' = vops + 1
  /\ UNCHANGED <<dtask, dlog, x3dh, history, wsLog>>
  /\ VaultDone("store", NormalizeAddress(to), TRUE, 0)

\* storeEncryptedPendingMessage putting the envelope at the head of the list.
storeEncryptedPendingMessageFirst(from, recipientAddr, encryptedMsg) ==
  [pending EXCEPT ![Written(recipientAddr)] =
     <<PendingMessage(from, recipientAddr, encryptedMsg)>> \o @]

\* storeEncryptedPendingMessage(recipientAddr, encryptedMsg): appended to the
\* list kept under the recipient's address as written.
storeEncryptedPendingMessage(from, recipientAddr, encryptedMsg) ==
  [pending EXCEPT ![Written(recipientAddr)] =
     Append(@, PendingMessage(from, recipientAddr, encryptedMsg))]

\* A message for an offline recipient: EncryptOfflineMessage and, when it
\* returns an envelope, storeEncryptedPendingMessage.
SendOffline(from, to, text) ==
  LET r == EncryptOfflineMessage(from, to, text) IN
  /\ VBudget
  /\ pending' = IF r.ok THEN storeEncryptedPendingMessage(from, to, r.msg) ELSE pending
  /\ vops' = vops + 1
  /\ UNCHANGED <<dtask, dlog, x3dh, history, wsLog>>
  /\ VaultDone("encrypt", NormalizeAddress(from), GetSession(Written(from)).exists, 0)

\* getPendingMessages leaving the list under its key.
getPendingMessagesKept(address) == pending

\* getPendingMessages: under PendingLock, the list of the address is taken
\* and the key deleted.
getPendingMessages(address) == [pending EXCEPT ![address] = <<>>]

\* deliverPendingMessages(walletAddr), first step: getPendingMessages; the
\* function returns when the list is empty.
DeliverTake(t, walletAddr) ==
  LET pendingMsgs == pending[Written(walletAddr)] IN
  /\ VBudget
  /\ dtask[t].pc = "idle"
  /\ pending' = getPendingMessages(Written(walletAddr))
  /\ vops' = vops + 1
  /\ dtask' = IF pendingMsgs = <<>> THEN dtask
              ELSE [dtask EXCEPT ![t] = [pc |-> "session", addr |-> walletAddr,
                                         taken |-> pendingMsgs, i |-> 0,
                                         drain |-> vops + 1, epoch |-> 0]]
  /\ UNCHANGED <<dlog, x3dh, history, wsLog>>
  /\ VaultDone("take", NormalizeAddress(walletAddr), TRUE, vops + 1)

\* The put-back leaving the vault as the take left it.
PutBackNothing(walletAddr, pendingMsgs) == pending

\* "Put messages back": s.PendingMessages[walletAddr] = pendingMsgs under
\* PendingLock; whatever was stored under the key since the take is replaced.
PutBack(walletAddr, pendingMsgs) == [pending EXCEPT ![walletAddr] = pendingMsgs]

\* deliverPendingMessages, second step: GetSession(walletAddr); without a
\* session the list taken is put back under the key.
DeliverSession(t) ==
  LET walletAddr == Written(dtask[t].addr)
      session == GetSession(walletAddr)
  IN
  /\ dtask[t].pc = "session"
  /\ IF ~session.exists
       THEN /\ pending' = PutBack(walletAddr, dtask[t].taken)
            /\ dtask' = [dtask EXCEPT ![t] = IdleDrain]
            /\ VaultDone("putback", NormalizeAddress(dtask[t].addr), FALSE, dtask[t].drain)
       ELSE /\ dtask' = [dtask EXCEPT ![t].pc = "loop", ![t].i = 1,
                                      ![t].epoch = epoch[walletAddr]]
            /\ UNCHANGED pending
            /\ VaultDone("found", NormalizeAddress(dtask[t].addr), TRUE, dtask[t].drain)
  /\ UNCHANGED <<vops, dlog, x3dh, history, wsLog>>

\* The keys the envelope was made for are the keys the recipient holds: the
\* signed prekey of its bundle is the recipient's, and the one-time prekey it
\* names, if any, is still unused.
BundleCurrent(recipientAddr, encryptedMsg) ==
  /\ encryptedMsg.spk = x3dh[recipientAddr].gen
  /\ encryptedMsg.opk = 1 => x3dh[recipientAddr].opk

\* Between the encryption and now, the bundle of the recipient in the
\* sender's cache and the prekeys the recipient holds have not changed.
KeysUnchanged(recipientAddr, senderAddr, encryptedMsg) ==
  /\ LocalPreKeys(recipientAddr) = encryptedMsg.rcptKeys
  /\ bundleCache[senderAddr][recipientAddr] =
       [gen |-> encryptedMsg.spk, opk |-> encryptedMsg.opk = 1]

\* The record of one delivery: the envelope (seq), the drain it was taken
\* by, what was handed over and what the sender had written.
Delivery(to, msg, drain, via, content, current, unchanged) ==
  [to |-> to, seq |-> msg.seq, drain |-> drain, via |-> via, text |-> content,
   enc |-> msg.content.enc, plain |-> msg.content.text, current |-> current,
   unchanged |-> unchanged]

\* deliverPendingMessages, one turn of the loop: the content is decrypted
\* when it is an envelope (the stored content is delivered when decryption
\* fails), the message is appended to the history of the session found in
\* the second step, and a "message" frame is written to the connection.
DeliverNext(t) ==
  LET walletAddr == Written(dtask[t].addr)
      msg == dtask[t].taken[dtask[t].i]
      senderAddr == NormalizeAddress(msg.from)
      dec == IF msg.content.enc THEN DecryptOfflineMessage(walletAddr, msg.content)
             ELSE [ok |-> FALSE, text |-> ""]
      content == IF ~msg.content.enc THEN msg.content.text
                 ELSE IF dec.ok THEN dec.text ELSE Sealed
      message == [id |-> msg.id, sender |-> senderAddr, status |-> "",
                  content |-> content]
      current == msg.content.enc /\ BundleCurrent(walletAddr, msg.content)
      unchanged == msg.content.enc /\ KeysUnchanged(walletAddr, senderAddr, msg.content)
  IN
  /\ dtask[t].pc = "loop"
  /\ \E consumed \in BOOLEAN :
       x3dh' = IF msg.content.enc /\ dec.ok /\ msg.content.opk = 1 /\ consumed
                 THEN [x3dh EXCEPT ![walletAddr].opk = FALSE]
                 ELSE x3dh
  /\ history' = IF epoch[walletAddr] = dtask[t].epoch
                  THEN [history EXCEPT ![walletAddr][senderAddr] = Append(@, message)]
                  ELSE history
  /\ wsLog' = SendWSMessage(walletAddr, WSMessage("message", senderAddr, msg.id, content))
  /\ dlog' = Append(dlog, Delivery(walletAddr, msg, dtask[t].drain, "deliver", content,
                                   current, unchanged))
  /\ dtask' = IF dtask[t].i = Len(dtask[t].taken)
                THEN [dtask EXCEPT ![t] = IdleDrain]
                ELSE [dtask EXCEPT ![t].i = @ + 1]
  /\ UNCHANGED <<pending, vops>>
  /\ VaultDone("delivered", walletAddr, TRUE, dtask[t].drain)

deliverPendingMessages(t, walletAddr) ==
  \/ DeliverTake(t, walletAddr)
  \/ DeliverSession(t)
  \/ DeliverNext(t)

\* GET /api/pending-messages: the caller's session names the address whose
\* list getPendingMessages takes; the list is the response.
handleGetPendingMessages(a) ==
  LET address == NormalizeAddress(a)
      pendingMsgs == pending[address]
  IN
  /\ VBudget
  /\ vops' = vops + 1
  /\ IF ~GetUserSession(a)
       THEN /\ UNCHANGED <<pending, dlog>>
            /\ VaultDone("fetch", address, FALSE, vops + 1)
       ELSE /\ pending' = getPendingMessages(address)
            /\ dlog' = dlog \o [i \in 1..Len(pendingMsgs) |->
                                  Delivery(address, pendingMsgs[i], vops + 1, "fetch",
                                           IF pendingMsgs[i].content.enc THEN Sealed
                                           ELSE pendingMsgs[i].content.text,
                                           FALSE, FALSE)]
            /\ VaultDone("fetch", address, TRUE, vops + 1)
  /\ UNCHANGED <<dtask, x3dh, history, wsLog>>

\* A call of SaveMessage(userAddr, peerAddr, msg) on the table as it is.
\* turn tells a call from the one before it.
NoSave == [user |-> "", peer |-> "", id |-> 0, content |-> "", turn |-> 0]
NoCheck == [caller |-> "", name |-> "", available |-> FALSE, turn |-> 0]

SaveMessageCall(userAddr, peerAddr, id, content) ==
  /\ msgdb' = SaveMessage(userAddr, peerAddr,
                          [id |-> id, sender |-> "You", status |-> "", content |-> content])
  /\ slast' = [user |-> userAddr, peer |-> peerAddr, id |-> id, content |-> content,
               turn |-> 1 - slast.turn]
  /\ UNCHANGED chanVars
  /\ UNCHANGED keyVars
  /\ UNCHANGED vaultVars
  /\ UNCHANGED <<sessions, usernameToAddress, addressToUsername, userRows, dhtBundles,
                 contacts, history, relay, wsConn, wsLog, clock, mlast, mops, ulast, ping, stream, ltask, sock, boot>>

\* len(req.Username) on the names a check-username request carries.
MaxUsernameLen == 50
LongName == "a-name-of-fifty-one-characters-aaaaaaaaaaaaaaaaaaaa"
UsernameLen(username) ==
  CASE username = "" -> 0
    [] username = "bo" -> 2
    [] username = LongName -> MaxUsernameLen + 1
    [] OTHER -> 3

\* HandleCheckUsername: an empty or over-long name is answered "not
\* available"; every other name is looked up with no wallet excluded (the
\* handler reads neither a session nor the X-Wallet-Address header, which is
\* recorded here only as the caller of the request).
HandleCheckUsername(a, username) ==
  /\ ulast' = [caller |-> NormalizeAddress(a), name |-> username,
               available |-> IF username = "" \/ UsernameLen(username) > MaxUsernameLen
                             THEN FALSE
                             ELSE IsUsernameAvailable(username, ""),
               turn |-> 1 - ulast.turn]
  /\ UNCHANGED chanVars
  /\ UNCHANGED keyVars
  /\ UNCHANGED vaultVars
  /\ UNCHANGED <<sessions, usernameToAddress, addressToUsername, userRows, dhtBundles,
                 contacts, history, msgdb, relay, wsConn, wsLog, clock, mlast, mops, slast, ping, stream, ltask, sock, boot>>

InitMsg ==
  /\ sessions = [w \in Users |-> NoSession]
  /\ usernameToAddress = [n \in LowerNames |-> ""]
  /\ addressToUsername = [w \in Users |-> ""]
  /\ userRows = [w \in Users |-> ""]
  /\ dhtBundles = {}
  /\ contacts = [u \in Users |-> [c \in Users |-> "none"]]
  /\ history = [w \in Users |-> NoChats]
  /\ msgdb = <<>>
  /\ relay = {}
  /\ wsConn = [w \in Users |-> FALSE]
  /\ wsLog = [w \in Users |-> <<>>]
  /\ clock = 1
  /\ mlast = NoOp
  /\ mops = 0
  /\ x3dh = [w \in Users |-> NoKeys]
  /\ epoch = [w \in Users |-> 0]
  /\ bundleCache = [u \in Users |-> [p \in Users |-> NoBundle]]
  /\ pending = [k \in AddrStrings |-> <<>>]
  /\ dtask = [t \in Tasks |-> IdleDrain]
  /\ dlog = <<>>
  /\ vlast = NoVaultOp
  /\ vops = 0
  /\ slast = NoSave
  /\ ulast = NoCheck
  /\ ping = [w \in Users |-> "ok"]
  /\ stream = NoStream
  /\ ltask = [t \in Tasks |-> IdleCall]
  /\ sock = IdleSock
  /\ boot = NoBoot

\* ------------------------------------------------------------ channel engine
InitChan ==
  /\ channels = [c \in ChanIds |-> NoChannel]
  /\ members = [c \in ChanIds |-> [u \in Users |-> "none"]]
  /\ invites = [i \in Codes |-> NoInvite]
  /\ ctask = [t \in Tasks |-> IdleTask]
  /\ clast = NoResult
  /\ joins = [i \in Codes |-> 0]
  /\ cops = 0
  /\ posts = [c \in ChanIds |-> [m \in PostIds |-> NoPost]]

\* The state after NewServer: empty maps, an empty database.
Init == InitChan /\ InitMsg

ChanStep(t) ==
  \/ HandleCreateChannel(t)
  \/ HandleSubscribeToChannel(t)
  \/ HandleUnsubscribeFromChannel(t)
  \/ HandleRemoveChannelMember(t)
  \/ HandlePromoteToAdmin(t)
  \/ HandleDemoteAdmin(t)
  \/ HandleTransferOwnership(t)
  \/ HandleCreateChannelInvite(t)
  \/ HandleGetChannelMembers(t)

AllIdle == \A t \in Tasks : ctask[t].pc = "idle"

\* Requests served one after another, each completed before the next: one
\* goroutine.
SeqTask == CHOOSE t \in Tasks : TRUE

NextChanSeq ==
  \/ ChanStep(SeqTask)
  \/ \E code \in Codes : InviteExpires(code)

\* Requests served concurrently, a goroutine each: the operations that
\* create a channel and an invite, join and leave, hand the channel over and
\* read the roles.  Channels are created here without initial members (the
\* sequential specification creates them with every list of InitialLists).
PlainCreate(t) == ctask'[t].initial = <<>>

NextChan ==
  \/ \E t \in Tasks : HandleCreateChannel(t) /\ PlainCreate(t)
  \/ \E t \in Tasks : HandleCreateChannelInvite(t)
  \/ \E t \in Tasks : HandleSubscribeToChannel(t)
  \/ \E t \in Tasks : HandleUnsubscribeFromChannel(t)
  \/ \E t \in Tasks : HandleTransferOwnership(t)
  \/ \E t \in Tasks : HandleGetChannelMembers(t)
  \/ \E code \in Codes : InviteExpires(code)

SpecChanSeq == Init /\ [][NextChanSeq]_vars

SpecChan == Init /\ [][NextChan]_vars

\* Authorization: a public channel is created and joined, members are
\* promoted and demoted, the channel is handed over and deleted, and every
\* wallet tries every operation on the channel's messages.
PublicCreate(t) == ctask[t].pc = "idle" =>
                     /\ ctask'[t].initial = <<>>
                     /\ ctask'[t].type = "public"
                     /\ ctask'[t].name = "news"
NoCode(t) == ctask[t].pc = "idle" => ctask'[t].code = 0

\* Invites: a public channel is created and joined, invites are made and
\* revoked; one request at a time.
NextInvites ==
  \/ HandleCreateChannel(SeqTask) /\ PublicCreate(SeqTask)
  \/ HandleSubscribeToChannel(SeqTask)
  \/ HandleCreateChannelInvite(SeqTask)
  \/ HandleRevokeChannelInvite(SeqTask)

SpecInvites == Init /\ [][NextInvites]_vars

NextAuth ==
  \/ \E t \in Tasks : HandleCreateChannel(t) /\ PublicCreate(t)
  \/ \E t \in Tasks : HandleSubscribeToChannel(t) /\ NoCode(t)
  \/ \E t \in Tasks : HandlePromoteToAdmin(t)
  \/ \E t \in Tasks : HandleTransferOwnership(t)
  \/ \E t \in Tasks : HandleSendChannelMessage(t)
  \/ \E t \in Tasks : HandleEditChannelMessage(t)
  \/ \E t \in Tasks : HandleDeleteChannelMessage(t)
  \/ \E t \in Tasks : HandlePinChannelMessage(t)
  \/ \E t \in Tasks : HandleDeleteChannel(t)

SpecAuth == Init /\ [][NextAuth]_vars

\* Channel events: a public channel is created, joined, left, posted to and
\* deleted, one request after another, while the wallets open their
\* WebSockets.
NextEvents ==
  \/ HandleCreateChannel(SeqTask) /\ PublicCreate(SeqTask)
  \/ HandleSubscribeToChannel(SeqTask) /\ NoCode(SeqTask)
  \/ HandleUnsubscribeFromChannel(SeqTask)
  \/ HandleRemoveChannelMember(SeqTask)
  \/ HandleSendChannelMessage(SeqTask)
  \/ HandleDeleteChannel(SeqTask)
  \/ \E a \in AddrInputs : a.form = "hex" /\ WsConnect(a)

SpecEvents == Init /\ [][NextEvents]_vars

\* The wallets that initialize sessions and exchange direct messages, and
\* the username each registers with.
Peers == {"alice", "bob"}
PeerInputs == {a \in AddrInputs : a.wallet \in Peers}
PeerNames == {"", "ann", "Ann", "bo"}

\* The session registry: Initialize with or without a username, with names
\* that differ in case only, and with every outcome.
NextSession ==
  \/ \E a \in PeerInputs, name \in PeerNames, reconnectOk \in BOOLEAN,
        outcome \in InitOutcomes : HandleInitialize(a, name, reconnectOk, outcome)
  \/ \E a \in PeerInputs : HandleUpdateProfile(a)

SpecSession == Init /\ [][NextSession]_vars

OwnName(w) == CASE w = "alice" -> "Ann" [] w = "bob" -> "bo" [] OTHER -> "cy"

\* Direct messages between the peers: sessions, block lists, send, receive.
Next ==
  \/ \E a \in PeerInputs, reconnectOk \in BOOLEAN, outcome \in InitOutcomes :
       HandleInitialize(a, OwnName(a.wallet), reconnectOk, outcome)
  \/ \E a, c \in PeerInputs : a.wallet # c.wallet /\ HandleBlockContact(a, c)
  \/ \E a, c \in PeerInputs : a.wallet # c.wallet /\ HandleUnblockContact(a, c)
  \/ \E a \in PeerInputs, rcpt \in RecipientInputs, content \in Contents :
       HandleSendMessage(a, rcpt, content)
  \/ \E w \in Users, msg \in relay : OnMessageReceived(w, msg)
  \/ \E a \in PeerInputs : WsConnect(a)
  \/ Tick

Spec == Init /\ [][Next]_vars

\* The realtime hub: connections, presence, status and profile updates.
NextPresence ==
  \/ \E a \in AddrInputs, reconnectOk \in BOOLEAN :
       HandleInitialize(a, OwnName(a.wallet), reconnectOk, "ok")
  \/ \E a, c \in AddrInputs : a.wallet # c.wallet /\ HandleBlockContact(a, c)
  \/ \E a, c \in AddrInputs : a.wallet # c.wallet /\ HandleUnblockContact(a, c)
  \/ \E a \in AddrInputs : WsConnect(a)
  \/ \E w \in Users : WsDisconnect(w)
  \/ \E a \in AddrInputs, status \in StatusInputs : HandleUpdateStatus(a, status)
  \/ \E a \in AddrInputs : HandleUpdateProfile(a)

SpecPresence == Init /\ [][NextPresence]_vars

\* The messages table under saves of every owner, peer, id and content.
StoreContents == {"ping", "pong"}

NextStore ==
  \E userAddr, peerAddr \in Users, id \in 1..MaxClock, content \in StoreContents :
    userAddr # peerAddr /\ SaveMessageCall(userAddr, peerAddr, id, content)

SpecStore == Init /\ [][NextStore]_vars

\* Usernames: wallets register with names that differ in case only, and
\* each asks for a registered name, a free one, an empty and an over-long one.
RegisteredNames == {"", "ann", "Ann"}
CheckNames == {"", "ann", "bo", LongName}

NextUsername ==
  \/ \E a \in PeerInputs, name \in RegisteredNames, outcome \in InitOutcomes :
       a.form = "hex" /\ HandleInitialize(a, name, TRUE, outcome)
  \/ \E a \in PeerInputs, name \in CheckNames :
       a.form = "hex" /\ HandleCheckUsername(a, name)

SpecUsername == Init /\ [][NextUsername]_vars

\* Usernames are registered by Initialize, with every outcome, and changed.
NextRename ==
  \/ \E a \in PeerInputs, name \in RegisteredNames, outcome \in InitOutcomes :
       a.form = "hex" /\ HandleInitialize(a, name, TRUE, outcome)
  \/ \E a \in PeerInputs, name \in PeerNames :
       a.form = "hex" /\ HandleUpdateUsername(a, name)

SpecRename == Init /\ [][NextRename]_vars

\* The connection of a client to the relay is lost: IsConnected() is false
\* from now on.
RelayDrops(w) ==
  /\ Budget
  /\ sessions[w].exists /\ sessions[w].relay
  /\ sessions' = [sessions EXCEPT ![w].relay = FALSE]
  /\ UNCHANGED keyVars
  /\ UNCHANGED <<usernameToAddress, addressToUsername, userRows, dhtBundles, contacts,
                 history, msgdb, relay, wsConn, wsLog, clock>>
  /\ Done("relaydown", w, "", TRUE, FALSE, "")

\* Sessions are initialized, with every outcome, lose their relay link, are
\* initialized again and cleaned up.
NextCleanup ==
  \/ \E a \in PeerInputs, name \in RegisteredNames, reconnectOk \in BOOLEAN,
        outcome \in InitOutcomes :
       a.form = "hex" /\ HandleInitialize(a, name, reconnectOk, outcome)
  \/ \E w \in Peers : RelayDrops(w)
  \/ \E a \in PeerInputs : CleanupSessionCall(a)

SpecCleanup == Init /\ [][NextCleanup]_vars

\* Account deletion: the peers initialize, keep contacts, write to each
\* other, create channels, and delete their accounts.
NextDelete ==
  \/ \E a \in PeerInputs : a.form = "hex" /\ HandleInitialize(a, OwnName(a.wallet), TRUE, "ok")
  \/ \E a, c \in PeerInputs :
       a.form = "hex" /\ c.form = "hex" /\ a.wallet # c.wallet /\ HandleBlockContact(a, c)
  \/ \E a \in PeerInputs, rcpt \in RecipientInputs, content \in Contents :
       a.form = "hex" /\ rcpt.kind = "addr" /\ rcpt.addr \in PeerInputs /\ rcpt.addr.form = "hex"
         /\ HandleSendMessage(a, rcpt, content)
  \/ HandleCreateChannel(SeqTask) /\ PublicCreate(SeqTask)
  \/ \E a, b \in PeerInputs : a.form = "hex" /\ b.form = "hex" /\ HandleDeleteAccount(a, b)

SpecDelete == Init /\ [][NextDelete]_vars

\* Chat history: the peers initialize, write to each other, receive, and
\* delete single messages and whole chats.
MessageIds == 1..MaxClock
HexPeers == {a \in PeerInputs : a.form = "hex"}

NextHistory ==
  \/ \E a \in HexPeers : HandleInitialize(a, OwnName(a.wallet), TRUE, "ok")
  \/ \E a \in HexPeers, rcpt \in RecipientInputs, content \in Contents :
       rcpt.kind = "addr" /\ rcpt.addr \in HexPeers /\ HandleSendMessage(a, rcpt, content)
  \/ \E w \in Users, msg \in relay : OnMessageReceived(w, msg)
  \/ \E a, c \in HexPeers, id \in MessageIds, everyone \in BOOLEAN :
       HandleDeleteMessage(a, c, id, everyone)
  \/ \E a, c \in HexPeers : HandleDeleteChat(a, c)
  \/ \E a \in HexPeers : WsConnect(a)
  \/ Tick

SpecHistory == Init /\ [][NextHistory]_vars

\* Keepalive: connections come and go, writes to a connection may start to
\* fail, and the ticker of the pinger keeps firing.
NextPing ==
  \/ \E a \in AddrInputs : a.form = "hex" /\ WsConnect(a)
  \/ \E w \in Users : WsDisconnect(w)
  \/ \E w \in Users : WriteBreaks(w)
  \/ startPingRoutine

FairPing == WF_vars(startPingRoutine)
SpecPing == Init /\ [][NextPing]_vars /\ FairPing

\* One stream: alice and bob initialize, and two goroutines serve alice's
\* sends to bob at the same time.
NextStream ==
  \/ \E a \in HexPeers : HandleInitialize(a, OwnName(a.wallet), TRUE, "ok")
  \/ \E t \in Tasks, a \in HexPeers, rcpt \in RecipientInputs, content \in Contents :
       /\ a.wallet = "alice" /\ rcpt.kind = "addr" /\ rcpt.addr \in HexPeers
       /\ rcpt.addr.wallet = "bob"
       /\ SendPrepare(t, a, rcpt, content)
  \/ \E t \in Tasks : SendRatchet(t)
  \/ StreamReceive
  \/ Tick

SpecStream == Init /\ [][NextStream]_vars

\* The lock discipline: two goroutines run the functions that take the
\* shared-state locks, in any interleaving.
NextLocks ==
  \/ \E t \in Tasks, op \in LockOps : StartCall(t, op)
  \/ \E t \in Tasks : Acquire(t)
  \/ \E t \in Tasks : Release(t)
  \/ \E t \in Tasks : AwaitIO(t)
  \/ \E t \in Tasks : Touch(t)
  \/ \E t \in Tasks : WriteFrame(t)
  \/ \E t \in Tasks : WriteHistory(t)

SpecLocks == Init /\ [][NextLocks]_vars

\* Delivery at least once: alice and bob initialize and send; the relay
\* delivers a message, or delivers it and keeps it for another delivery.
NextRedeliver ==
  \/ \E a \in HexPeers : HandleInitialize(a, OwnName(a.wallet), TRUE, "ok")
  \/ \E a \in HexPeers, rcpt \in RecipientInputs, content \in Contents :
       HandleSendMessage(a, rcpt, content)
  \/ \E w \in Users, msg \in relay : OnMessageReceived(w, msg)
  \/ \E w \in Users, msg \in relay : OnMessageReceivedAgain(w, msg)
  \/ Tick

SpecRedeliver == Init /\ [][NextRedeliver]_vars

\* WebSocket connections of two wallets: the handlers of the connections
\* run side by side, each through its registration, its read loop and its
\* deferred cleanup.
NextSockets ==
  \/ \E a \in PeerInputs : handleWebSocketUpgrade(a)
  \/ \E c \in ConnIds : handleWebSocketRegister(c)
  \/ \E c \in ConnIds : handleWebSocketOnline(c)
  \/ \E c \in ConnIds : handleWebSocketReadEnds(c)
  \/ \E c \in ConnIds : handleWebSocketUnregister(c)
  \/ \E c \in ConnIds : handleWebSocketOffline(c)

SpecSockets == Init /\ [][NextSockets]_vars

\* Initialize requests for one wallet, served by two goroutines.
NextBoot ==
  \/ \E t \in Tasks : HandleInitializeStart(t)
  \/ \E t \in Tasks : HandleInitializeCheck(t)
  \/ \E t \in Tasks : HandleInitializeCreate(t)
  \/ \E t \in Tasks : HandleInitializeNode(t)
  \/ \E t \in Tasks : HandleInitializeClient(t)
  \/ \E t \in Tasks : HandleInitializeFinish(t)

SpecBoot == Init /\ [][NextBoot]_vars

\* The offline vault: the peers initialize (again and again: a relay failure
\* leaves a session without keys, a success makes new keys), send while
\* online, store messages for a peer that is away, and drain.
VaultTexts == {"ping"}
VaultOutcomes == {"ok", "relay"}

\* alice writes to bob, who is away and comes back.
SenderInputs == {a \in AddrInputs : a.wallet = "alice"}
AwayInputs == {a \in AddrInputs : a.wallet = "bob"}

NextVault ==
  \/ \E a \in PeerInputs, outcome \in VaultOutcomes :
       HandleInitialize(a, OwnName(a.wallet), FALSE, outcome)
  \/ \E a \in SenderInputs, rcpt \in RecipientInputs, content \in Contents :
       rcpt.addr \in AwayInputs /\ HandleSendMessage(a, rcpt, content)
  \/ \E a \in AwayInputs : WsConnect(a)
  \/ \E a \in AwayInputs : RelayDrops(NormalizeAddress(a))
  \/ \E from \in SenderInputs, to \in AwayInputs, text \in VaultTexts :
       storePendingMessage(from, to, text)
  \/ \E from \in SenderInputs, to \in AwayInputs, text \in VaultTexts :
       SendOffline(from, to, text)
  \/ \E t \in Tasks, walletAddr \in AwayInputs : DeliverTake(t, walletAddr)
  \/ \E t \in Tasks : DeliverSession(t)
  \/ \E t \in Tasks : DeliverNext(t)
  \/ \E a \in AwayInputs : handleGetPendingMessages(a)

SpecVault == Init /\ [][NextVault]_vars

\* The vault and the chats: alice and carol write to bob, who is away;
\* alice and bob delete chats.
HexInputs == {a \in AddrInputs : a.form = "hex"}
NextChatVault ==
  \/ \E a \in HexPeers : HandleInitialize(a, OwnName(a.wallet), TRUE, "ok")
  \/ \E from \in HexInputs, to \in AwayInputs, text \in VaultTexts :
       from.wallet # "bob" /\ to.form = "hex" /\ storePendingMessage(from, to, text)
  \/ \E a, c \in HexPeers : HandleDeleteChat(a, c)
  \/ Tick

SpecChatVault == Init /\ [][NextChatVault]_vars

\* Reconnect: bob has a session but no WebSocket while alice sends; the relay
\* hands the message to bob's client, bob connects, and the vault is drained
\* for him.  Every step that is enabled keeps its turn: the relay delivers,
\* the upgrade completes, a drain that has started goes on.
NextReconnect ==
  \/ \E a \in PeerInputs : HandleInitialize(a, OwnName(a.wallet), FALSE, "ok")
  \/ \E a \in SenderInputs, rcpt \in RecipientInputs, content \in Contents :
       rcpt.addr \in AwayInputs /\ HandleSendMessage(a, rcpt, content)
  \/ \E w \in Users, msg \in relay : OnMessageReceived(w, msg)
  \/ \E a \in AwayInputs : WsConnect(a)
  \/ \E from \in SenderInputs, to \in AwayInputs, text \in VaultTexts :
       storePendingMessage(from, to, text)
  \/ \E walletAddr \in AwayInputs : DeliverTake(SeqTask, walletAddr)
  \/ DeliverSession(SeqTask)
  \/ DeliverNext(SeqTask)

FairReconnect ==
  /\ WF_vars(\E w \in Users, msg \in relay : OnMessageReceived(w, msg))
  /\ WF_vars(\E a \in AwayInputs : WsConnect(a))
  /\ WF_vars(\E walletAddr \in AwayInputs : DeliverTake(SeqTask, walletAddr))
  /\ WF_vars(DeliverSession(SeqTask))
  /\ WF_vars(DeliverNext(SeqTask))

SpecReconnect == Init /\ [][NextReconnect]_vars /\ FairReconnect

\* ------------------------------------------------------------ channel claims
\* C1: after any sequence of completed channel operations, every channel has
\* exactly one member row with role 'owner'.
C1_SingleOwner ==
  AllIdle => \A c \in ChanIds : channels[c].exists => OwnerCount(c) = 1

\* C2: a reader of the member roles that runs while a transfer of the channel
\* is in progress sees exactly one owner.
C2_TransferAtomic ==
  (clast.op = "members" /\ clast.ok /\ clast.inTransfer) => clast.owners = 1

\* C3: for an invite with max_uses = N > 0, under concurrent Subscribe
\* requests at most N joins succeed and uses never exceeds N.
C3_InviteNotOverused ==
  \A i \in Codes : (invites[i].exists /\ invites[i].maxUses > 0) =>
    (invites[i].uses <= invites[i].maxUses /\ joins[i] <= invites[i].maxUses)

\* C4: a Subscribe to a private channel by a non-member succeeds if and only
\* if the code names an invite of that channel that is not expired and has
\* uses < max_uses or max_uses = 0.
C4_JoinIffInviteUsable ==
  (clast.op = "subscribe" /\ clast.seenType = "private" /\ clast.seenRole = "none") =>
    (clast.ok <=> /\ clast.seenInvite.exists
                  /\ clast.seenInvite.chan = clast.chan
                  /\ clast.seenInvite.expiry # "past"
                  /\ \/ clast.seenInvite.uses < clast.seenInvite.maxUses
                     \/ clast.seenInvite.maxUses = 0)

\* C5: once every Subscribe has answered, uses of an invite equals the number
\* of successful joins made with its code.
C5_UsesEqualsJoins ==
  AllIdle => \A i \in Codes : invites[i].exists => invites[i].uses = joins[i]

\* C6: after any sequence of completed create, add-member and remove-member
\* operations, subscriber_count equals the number of member rows.
C6_SubscriberCount ==
  AllIdle => \A c \in ChanIds :
    channels[c].exists => channels[c].count = Cardinality(GetChannelMembers(c))

\* ------------------------------------------------------------ session and message claims
\* C7: an Initialize that fails at key generation, DHT start, relay connect
\* or X3DH init leaves no session entry for the wallet, leaves both username
\* indexes as they were, and leaves no DHT node or relay connection running.
C7_InitializeAtomic ==
  [][(mops' # mops /\ mlast'.op = "initialize"
        /\ mlast'.failedAt \in {"keygen", "dht", "relay", "x3dh"}) =>
       (/\ ~sessions'[mlast'.user].exists
        /\ usernameToAddress' = usernameToAddress
        /\ addressToUsername' = addressToUsername
        /\ sessions'[mlast'.user].dht # "running"
        /\ ~sessions'[mlast'.user].relay)]_vars

C9_BlockedSendLocalOnly ==
  [][(mops' # mops /\ mlast'.op = "send" /\ mlast'.blocked) =>
       LET u == mlast'.user
           p == mlast'.peer
           n == Len(history[u][p])
       IN
       /\ mlast'.ok
       /\ Len(history'[u][p]) = n + 1
       /\ SubSeq(history'[u][p], 1, n) = history[u][p]
       /\ history'[u][p][n + 1].sender = "You"
       /\ history'[u][p][n + 1].status = "sent"
       /\ \E i \in 1..Len(msgdb') :
            /\ msgdb'[i].id = history'[u][p][n + 1].id
            /\ msgdb'[i].user = u
            /\ msgdb'[i].peer = p
            /\ msgdb'[i].content = history'[u][p][n + 1].content
       /\ relay' = relay
       /\ history'[p] = history[p]
       /\ wsLog'[p] = wsLog[p]]_vars

\* C10: a wallet b that has blocked a is sent no online, status_update or
\* profile_update frame about a.
C10_NoPresenceToBlocker ==
  [][\A b \in Users, a \in Users :
       contacts[b][a] = "blocked" =>
         \A i \in (Len(wsLog[b]) + 1)..Len(wsLog'[b]) :
           ~(/\ wsLog'[b][i].about = a
             /\ wsLog'[b][i].type \in {"online", "status_update", "profile_update"})]_vars

\* The frame type that announces each presence operation.
EventOf(op) ==
  CASE op = "connect" -> "online"
    [] op = "disconnect" -> "online"
    [] op = "status" -> "status_update"
    [] OTHER -> "profile_update"

\* C11: when a connects, disconnects, changes status or updates the profile,
\* every other connected wallet that has not blocked a is sent the
\* corresponding online / status_update / profile_update frame about a.
C11_OthersNotified ==
  [][(/\ mops' # mops
      /\ mlast'.op \in {"connect", "disconnect", "status", "profile"}
      /\ mlast'.ok) =>
       \A r \in Users \ {mlast'.user} :
         (wsConn[r] /\ contacts[r][mlast'.user] # "blocked") =>
           \E i \in (Len(wsLog[r]) + 1)..Len(wsLog'[r]) :
             /\ wsLog'[r][i].about = mlast'.user
             /\ wsLog'[r][i].type = EventOf(mlast'.op)]_vars

\* ------------------------------------------------------------ offline vault claims
\* C12: a session lookup keyed by any variant of a wallet address returns the
\* same session as the lookup keyed by the normal form, at every call site
\* that resolves a session by address: the offline encryption and the drain
\* find a session exactly when the wallet has one.
C12_VariantFindsSession ==
  [][(vlast' # vlast /\ vlast'.op \in {"encrypt", "putback", "found"}) =>
       (vlast'.found <=> sessions[vlast'.wallet].exists)]_vars

\* C13: each pending envelope is delivered at most once: an envelope a drain
\* (reconnect delivery or pending-messages fetch) has handed over is handed
\* over by no other drain, and is no longer in the vault.
C13_DeliveredAtMostOnce ==
  /\ \A i, j \in 1..Len(dlog) : dlog[i].seq = dlog[j].seq => i = j
  /\ \A i \in 1..Len(dlog), k \in AddrStrings :
       \A j \in 1..Len(pending[k]) : pending[k][j].seq # dlog[i].seq

\* An envelope has been delivered and a later drain has run.
C13_Witness ==
  /\ dlog # <<>>
  /\ vlast.op \in {"take", "fetch"}
  /\ vlast.drain > dlog[1].drain

\* A "message" frame with the id and content was written to b's connection.
HasFrame(b, id, content) ==
  \E k \in 1..Len(wsLog[b]) :
    /\ wsLog[b][k].type = "message"
    /\ wsLog[b][k].id = id
    /\ wsLog[b][k].content = content

\* b's session has received the message (it is in b's history) and no frame
\* carried it: b's WebSocket was closed when it arrived.
Missed(b, id, content) ==
  /\ \E p \in Users, i \in 1..MaxMsgOps :
       /\ i <= Len(history[b][p])
       /\ history[b][p][i].sender # "You"
       /\ history[b][p][i].id = id
       /\ history[b][p][i].content = content
  /\ ~HasFrame(b, id, content)

\* C14: if a message is sent to B while B's WebSocket is closed, then after
\* B reconnects a message event carrying its content is eventually delivered
\* to B's connection.
C14_ReconnectDelivers ==
  \A b \in Peers, id \in 1..MaxClock, content \in Contents :
    (Missed(b, id, content) /\ wsConn[b]) ~> HasFrame(b, id, content)

\* C15: a drain delivers the pending envelopes of a recipient in FIFO order:
\* of two envelopes one drain hands over, the one stored first is appended to
\* the history and emitted first.
C15_DrainFifo ==
  \A i, j \in 1..Len(dlog) :
    (i < j /\ dlog[i].drain = dlog[j].drain) => dlog[i].seq < dlog[j].seq

\* One drain of deliverPendingMessages has handed over two envelopes.
C15_Witness ==
  \E i, j \in 1..Len(dlog) :
    /\ i < j
    /\ dlog[i].drain = dlog[j].drain
    /\ dlog[i].via = "deliver"
    /\ dlog[j].via = "deliver"

\* C16: when the session of the recipient is not found at drain time, all
\* the envelopes the drain took are returned to the vault, and none of them
\* is delivered or dropped: after the step every one of them is in the list
\* of the address again, and no history, connection or delivery record has
\* changed.
C16_PutBackOnMissingSession ==
  [][\A t \in Tasks :
       (dtask[t].pc = "session" /\ dtask'[t].pc = "idle") =>
         LET key == Written(dtask[t].addr)
             taken == dtask[t].taken
         IN
         /\ \A i \in 1..Len(taken) :
              \E j \in 1..Len(pending'[key]) : pending'[key][j] = taken[i]
         /\ dlog' = dlog
         /\ history' = history
         /\ wsLog' = wsLog]_vars

\* A drain found no session for its address and has returned.
C16_Witness == vlast.op = "putback" /\ ~vlast.found

\* C17: encrypting plaintext P from A for offline B with
\* EncryptOfflineMessage and later decrypting the envelope with
\* DecryptOfflineMessage at B yields exactly P, provided B's cached key
\* bundle at A and B's local prekeys are unchanged in between.
C17_OfflineRoundTrip ==
  \A i \in 1..Len(dlog) :
    (dlog[i].via = "deliver" /\ dlog[i].enc /\ dlog[i].unchanged) =>
      dlog[i].text = dlog[i].plain

\* ------------------------------------------------------------ persistence claims
\* C18: two saves of messages sharing (owner, peer, id) leave exactly one
\* persisted row for the triple, and the content of that row is the content
\* of the later save.
C18_SaveIdempotent ==
  [][(/\ slast'.turn # slast.turn
      /\ slast.id # 0
      /\ slast'.user = slast.user
      /\ slast'.peer = slast.peer
      /\ slast'.id = slast.id) =>
       LET rows == {i \in 1..Len(msgdb') : /\ msgdb'[i].user = slast'.user
                                           /\ msgdb'[i].peer = slast'.peer
                                           /\ msgdb'[i].id = slast'.id}
       IN
       /\ Cardinality(rows) = 1
       /\ \A i \in rows : msgdb'[i].content = slast'.content]_vars

\* ------------------------------------------------------------ authorization claims
\* The authorization matrix: the roles that may perform each operation.
AuthOps == {"post", "edit", "delmsg", "pin", "delchan", "transfer"}
RequiredRoles(op) ==
  IF op \in {"post", "edit", "delmsg", "pin"} THEN {"admin", "owner"} ELSE {"owner"}

\* The statement of each handler that reads the caller's role.
PermPc(op) ==
  CASE op = "post" -> "sm_perm"
    [] op = "edit" -> "em_perm"
    [] op = "delmsg" -> "dm_perm"
    [] op = "pin" -> "pm_perm"
    [] op = "delchan" -> "dc_isowner"
    [] OTHER -> "tr_isowner"

\* C19: every channel operation attempted by a caller whose current role is
\* below the role the authorization matrix requires is rejected and changes
\* no state: post, edit, delete and pin require admin or owner; delete
\* channel and transfer ownership require owner.
C19_RoleAuthorization ==
  [][\A t \in Tasks :
       (/\ ctask[t].op \in AuthOps
        /\ ctask[t].pc = PermPc(ctask[t].op)
        /\ ctask'[t] # ctask[t]
        /\ members[ctask[t].chan][ctask[t].caller] \notin RequiredRoles(ctask[t].op)) =>
         /\ ctask'[t].pc = "idle"
         /\ clast'.op = ctask[t].op
         /\ ~clast'.ok
         /\ channels' = channels
         /\ members' = members
         /\ invites' = invites
         /\ posts' = posts]_vars

\* A member with role subscriber asked for an operation of the matrix and
\* was refused.
C19_Witness ==
  /\ clast.op \in AuthOps \ {"transfer"}
  /\ ~clast.ok
  /\ clast.seenRole = "subscriber"
  /\ \E u \in Users : members[clast.chan][u] = "subscriber"
\* C20: a check-username request for a well-formed name (1 to 50 characters)
\* is answered available=false exactly when a user row of a wallet other than
\* the caller's holds the name, compared without regard to case.
TakenByOther(caller, username) ==
  \E w \in Users : /\ w # caller
                    /\ userRows[w] # ""
                    /\ LowerName(userRows[w]) = LowerName(username)

C20_CheckUsername ==
  [][(/\ ulast' # ulast
      /\ ulast'.name # ""
      /\ UsernameLen(ulast'.name) <= MaxUsernameLen) =>
       (~ulast'.available <=> TakenByOther(ulast'.caller, ulast'.name))]_vars

\* C21: a frame about channel c is written only to the connection of a
\* wallet that is a member of c when the frame is written.
C21_NonMembersGetNoEvents ==
  [][\A u \in Users :
       Len(wsLog'[u]) > Len(wsLog[u]) =>
         LET frame == wsLog'[u][Len(wsLog'[u])] IN
         frame.chan # 0 => members'[frame.chan][u] # "none"]_vars

\* C22: when CleanupSession(wallet) has returned, the session map has no
\* entry for the wallet, neither username index holds an entry for it, and
\* the persisted rows are as they were.  (The DHT node and the relay link of a
\* session are fields of its entry in this model and go with it.)
C22_CleanupComplete ==
  [][(mops' # mops /\ mlast'.op = "cleanup") =>
       LET w == mlast'.user IN
       /\ ~sessions'[w].exists
       /\ addressToUsername'[w] = ""
       /\ \A n \in LowerNames : usernameToAddress'[n] # w
       /\ userRows' = userRows /\ contacts' = contacts /\ msgdb' = msgdb]_vars

\* C23: an Initialize that passes the username checks for a wallet whose
\* session exists answers "active" and re-initializes nothing: no session,
\* client or DHT node is created, the history and the username indexes stay,
\* and the only change is the relay link, which is up afterwards.
C23_ExistingSessionKept ==
  [][(/\ mops' # mops
      /\ mlast'.op = "initialize"
      /\ mlast'.failedAt # "username"
      /\ sessions[mlast'.user].exists) =>
       /\ mlast'.ok
       /\ sessions' = [sessions EXCEPT ![mlast'.user].relay = TRUE]
       /\ epoch' = epoch /\ x3dh' = x3dh
       /\ history' = history
       /\ usernameToAddress' = usernameToAddress
       /\ addressToUsername' = addressToUsername]_vars

\* C24: no two user rows hold one username (compared without regard to
\* case), and no call takes a username that the username-to-address index
\* binds to one wallet and binds it to another.
TableUnique ==
  \A w1, w2 \in Users :
    (/\ userRows[w1] # "" /\ userRows[w2] # ""
     /\ LowerName(userRows[w1]) = LowerName(userRows[w2])) => w1 = w2

C24_UsernameBindings ==
  [][/\ TableUnique'
     /\ \A n \in LowerNames :
          usernameToAddress[n] # "" =>
            usernameToAddress'[n] \in {usernameToAddress[n], ""}]_vars


\* C25: after the account deletion of wallet W completes, no persisted data
\* of W remains: the users row and all of W's contacts, messages and channel
\* memberships are removed.
C25_DeletionRemovesAll ==
  [][(mops' # mops /\ mlast'.op = "delete" /\ mlast'.ok) =>
       LET w == mlast'.user IN
       /\ userRows'[w] = ""
       /\ \A c \in Users : contacts'[w][c] = "none"
       /\ \A i \in 1..Len(msgdb') : msgdb'[i].user # w
       /\ \A c \in ChanIds : members'[c][w] = "none"]_vars


\* C26: no operation other than account deletion physically removes a
\* message from history or storage: whatever request or callback is served,
\* every row of the messages table and every entry of a chat history is
\* still there afterwards.
RowKept(r) ==
  \E i \in 1..Len(msgdb') :
    msgdb'[i].id = r.id /\ msgdb'[i].user = r.user /\ msgdb'[i].peer = r.peer
EntryKept(u, p, m) == \E i \in 1..Len(history'[u][p]) : history'[u][p][i].id = m.id
C26_OnlyDeletionRemoves ==
  [][(mops' # mops /\ mlast'.op # "delete") =>
       /\ \A i \in 1..Len(msgdb) : RowKept(msgdb[i])
       /\ \A u, p \in Users : \A i \in 1..Len(history[u][p]) :
            EntryKept(u, p, history[u][p][i])]_vars


\* C27: when a ping write to a registered connection fails, that connection
\* is eventually removed from the connection map.
C27_FailedPingCloses ==
  \A w \in Users : (wsConn[w] /\ ping[w] = "failed") ~> ~wsConn[w]


\* C28: within a (sender, recipient) stream the recipient's history keeps
\* the order of the sequence numbers, and the sequence numbers handed out
\* per peer are strictly increasing: no two sends in progress hold the same
\* number, and none holds a number above the counter.
GotInOrder ==
  \A i, j \in 1..Len(stream.got) :
    (i < j /\ stream.got[i].from = stream.got[j].from /\ stream.got[i].to = stream.got[j].to)
      => stream.got[i].seq < stream.got[j].seq
SeqsIncrease ==
  \A t1, t2 \in Tasks :
    LET k1 == stream.task[t1]
        k2 == stream.task[t2]
    IN (k1.pc = "send" /\ k2.pc = "send" /\ t1 # t2 /\ k1.user = k2.user /\ k1.peer = k2.peer)
         => (k1.seq # k2.seq /\ k1.seq <= stream.next[k1.user][k1.peer])
C28_StreamOrder == GotInOrder /\ SeqsIncrease


\* C29: no task holds one of the shared-state locks while it awaits I/O (a
\* database call, a socket write, a DHT RPC or a relay send).
C29_NoLockAcrossIO ==
  \A t \in Tasks :
    AtKind(t, {"io", "frame"}) => \A h \in ltask[t].held : h[1] \notin Locks

\* C30: no task acquires one of the locks A..E while it holds a lock that
\* comes later in the order A, B, C, D, E, and no reachable state is a
\* deadlock: whenever a task waits for a lock, some task can move.
OrderKept ==
  \A t \in Tasks : \A n \in ltask'[t].held \ ltask[t].held :
    \A h \in ltask[t].held :
      (n[1] \in Locks /\ h[1] \in Locks) => ~(Rank(h[1]) > Rank(n[1]))
NoLockDeadlock ==
  (\E t \in Tasks : Blocked(t)) => \E t \in Tasks : ltask[t].op # "" /\ ~Blocked(t)
C30_LockOrder == [][OrderKept]_vars /\ []NoLockDeadlock
C30_Witness ==
  \E t1, t2 \in Tasks :
    /\ t1 # t2 /\ Blocked(t2)
    /\ ltask[t1].op = "HandleDeleteAccount" /\ <<"A", "w">> \in ltask[t1].held


\* C31: a session's history map has a single writer: whoever assigns to
\* it serves the session that owns it, and no two tasks are at an
\* assignment to the same session's map at the same time.
OwnerWrites ==
  \A t \in Tasks : AtKind(t, {"write"}) => AtStep(t).actor = AtStep(t).owner
NotAtOnce ==
  \A t1, t2 \in Tasks :
    (t1 # t2 /\ AtKind(t1, {"write"}) /\ AtKind(t2, {"write"}))
      => AtStep(t1).owner # AtStep(t2).owner
C31_SingleWriter == OwnerWrites /\ NotAtOnce

\* C32: a task that writes a frame to a connection holds that
\* connection's write mutex, no two tasks write to one connection at the
\* same time, and the step after the frame write releases the mutex.
FrameUnderMutex ==
  \A t \in Tasks :
    AtKind(t, {"frame"}) => <<AtStep(t).lock, "w">> \in ltask[t].held
OneFrameWriter ==
  \A t1, t2 \in Tasks :
    (t1 # t2 /\ AtKind(t1, {"frame"}) /\ AtKind(t2, {"frame"}))
      => AtStep(t1).lock # AtStep(t2).lock
OneFramePerHold ==
  \A t \in Tasks :
    (AtKind(t, {"frame"}) /\ ltask'[t] # ltask[t])
      => /\ ltask'[t].op = ltask[t].op
         /\ StepsOf(ltask'[t].op)[ltask'[t].pc] = UnlockStep(AtStep(t).lock)
C32_OneFrameWriter ==
  [][OneFramePerHold]_vars /\ [](FrameUnderMutex /\ OneFrameWriter)
C32_Witness ==
  \E t1, t2 \in Tasks :
    /\ t1 # t2
    /\ AtKind(t1, {"frame"}) /\ <<AtStep(t1).lock, "w">> \in ltask[t1].held
    /\ AtKind(t2, {"lock"}) /\ AtStep(t2).lock = AtStep(t1).lock /\ Blocked(t2)


\* C33: whenever no handler of a wallet's connections is inside its
\* registration or its cleanup, the wallet is marked online if and only if
\* the connection map holds an open connection for it; and if one of its
\* connections is open (a later one, after an earlier one was cleaned up),
\* that connection is registered and the wallet is marked online.
Settled(w) ==
  \A c \in ConnIds : sock.conn[c].addr = w => sock.conn[c].pc \in {"read", "closed"}
OpenFor(w) == {c \in ConnIds : sock.conn[c].addr = w /\ sock.conn[c].pc = "read"}
C33_OnlineIffConnected ==
  \A w \in Users :
    Settled(w) =>
      /\ sock.online[w] <=> sock.reg[w] \in OpenFor(w)
      /\ OpenFor(w) # {} => (sock.reg[w] \in OpenFor(w) /\ sock.online[w])

\* C38: once the Initialize calls for the wallet have returned, one
\* session is registered, it has a client and a running DHT node, and no
\* other session object has a DHT node running or a relay connection up.
BootQuiet == \A t \in Tasks : boot.call[t].pc = "idle"
C38_OneSessionPerWallet ==
  (BootQuiet /\ \E o \in SessionIds : boot.obj[o].made) =>
    /\ boot.reg # 0 /\ boot.obj[boot.reg].client /\ boot.obj[boot.reg].node
    /\ \A o \in SessionIds \ {boot.reg} : ~boot.obj[o].node /\ ~boot.obj[o].relay


\* C34: when a drain returns the envelopes it took because the session of
\* the recipient is missing, the envelopes stored for the recipient since
\* the take are still in the list afterwards, and the returned ones come
\* before them.
C34_PutBackKeepsNewer ==
  [][\A t \in Tasks :
       (dtask[t].pc = "session" /\ dtask'[t].pc = "idle") =>
         LET key == Written(dtask[t].addr) IN
         pending'[key] = dtask[t].taken \o pending[key]]_vars


\* C35: when a message from A is delivered to B (OnMessageReceived has
\* appended it to B's history), the table holds B's row (B, A, id) and A's
\* row (A, B, id) with the id the two share.
HasRow(db, w, p, id) ==
  \E i \in 1..Len(db) : db[i].user = w /\ db[i].peer = p /\ db[i].id = id
C35_BothRowsPersisted ==
  [][\A w, p \in Users :
       (/\ mops' # mops
        /\ mlast'.op = "receive"
        /\ Len(history'[w][p]) > Len(history[w][p])) =>
         LET e == history'[w][p][Len(history'[w][p])] IN
         /\ HasRow(msgdb', w, p, e.id)
         /\ HasRow(msgdb', p, w, e.id)]_vars


\* C36: redelivery of an inbound direct message is idempotent: when
\* OnMessageReceived runs for recipient w and sender p while a message of
\* p that w's history already holds is delivered again, then afterwards w's
\* history for p has exactly one received entry with the id of that message
\* and the table has exactly one row (w, p, id).
Received(h, id) == {i \in 1..Len(h) : h[i].id = id /\ h[i].sender # "You"}
RowsWithId(db, w, p, id) ==
  {i \in 1..Len(db) : db[i].user = w /\ db[i].peer = p /\ db[i].id = id}
C36_RedeliveryIdempotent ==
  [][\A msg \in relay :
       LET w == msg.to
           p == msg.from
       IN
       (/\ mops' # mops
        /\ mlast'.op = "receive" /\ mlast'.user = w /\ mlast'.peer = p
        /\ w # p
        /\ Received(history[w][p], msg.ts) # {}) =>
         /\ Cardinality(Received(history'[w][p], msg.ts)) = 1
         /\ Cardinality(RowsWithId(msgdb', w, p, msg.ts)) = 1]_vars


\* C37: owner_address of a channel is the address of the member whose role
\* is owner: when a transfer of ownership to N is answered with success,
\* owner_address of the channel is N and N's role is owner.
C37_OwnerColumnFollows ==
  [][\A t \in Tasks :
       (/\ ctask[t].op = "transfer"
        /\ ctask[t].pc # "idle"
        /\ ctask'[t].pc = "idle"
        /\ clast'.op = "transfer"
        /\ clast'.ok) =>
         /\ channels'[ctask[t].chan].owner = ctask[t].target
         /\ members'[ctask[t].chan][ctask[t].target] = "owner"]_vars


\* C39: deleting the chat between A and P removes from the vault only
\* envelopes A sent to P: under every key, the envelopes of any other
\* sender or recipient are the same after the delete as before.
NotOfChat(list, sender, rcpt) ==
  SelectSeq(list, LAMBDA m : ~(NormalizeAddress(m.from) = sender /\ NormalizeAddress(m.to) = rcpt))
C39_DeleteChatKeepsOthers ==
  [][(mops' # mops /\ mlast'.op = "delete-chat" /\ mlast'.ok) =>
       \A k \in AddrStrings :
         NotOfChat(pending'[k], mlast'.user, mlast'.peer)
           = NotOfChat(pending[k], mlast'.user, mlast'.peer)]_vars


\* C40: an invite is revoked only by an admin or the owner of its channel:
\* a revoke request of any other caller is rejected and the invite row
\* stays as it is.
C40_RevokeNeedsRole ==
  [][\A t \in Tasks :
       (/\ ctask[t].op = "revoke"
        /\ ctask[t].pc # "idle"
        /\ ctask'[t].pc = "idle"
        /\ invites[ctask[t].code].exists
        /\ ~IsAdminOrOwner(invites[ctask[t].code].chan, ctask[t].caller)) =>
         /\ ~clast'.ok
         /\ invites' = invites]_vars

====
